---- MODULE Spec2Model ----
(***************************************************************************)
(* The episodic store of LargeMemoryModel: the reference backend           *)
(* (lmm/stores/episodic.py, InMemoryEpisodicStore) and the durable backend *)
(* (lmm/stores/neo4j_episodic.py, Neo4jEpisodicStore) side by side.        *)
(*                                                                         *)
(* Spec    : one caller applies every operation to a reference store and   *)
(*           to a durable store of the same braid, in lockstep.            *)
(* SpecSeq, SpecEp : the durable store alone, driven by one or two callers *)
(*           whose calls interleave at the granularity of the auto-commit  *)
(*           queries the code issues, with storage-engine failures;        *)
(*           SpecSeq runs append_delta and commit_knot, SpecEp runs        *)
(*           upsert_episode and get_episode.                               *)
(***************************************************************************)
EXTENDS Integers, Sequences, FiniteSets, TLC

\* ------------------------------------------------------------------ bounds

\* operations the single caller of Spec performs
MaxOps == 3
\* calls the callers of SpecSeq and SpecEp start, all together
MaxCalls == 3

\* ------------------------------------------------------------- value sets

\* the braid the stores are constructed for, and a foreign braid id
BraidId == "b1"
Braids == {"b1", "b2"}

None == "None"

\* uuid4(): the n-th generated id; generated ids never collide with each other
\* or with caller-supplied ids
UuidTable == <<"u1", "u2", "u3", "u4", "u5", "u6", "u7", "u8", "u9", "u10", "u11", "u12">>
Uuid(n) == UuidTable[n]

\* confidences are kept in tenths: 7 stands for 0.7
ConfDefault == 5


\* GenericDelta as the caller of append_delta builds it
GenericDelta(id, braid_id, kind, ts, provenance, confidence, payload, refs, tags) ==
    [id |-> id, braid_id |-> braid_id, kind |-> kind, ts |-> ts,
     provenance |-> provenance, confidence |-> confidence,
     payload |-> payload, refs |-> refs, tags |-> tags]

Provenance(kind, tool) == [kind |-> kind, tool |-> tool]

\* ProvenanceKind; Provenance(kind = ...) raises a validation error for any
\* other value
ProvenanceKind == {"user", "assistant", "tool", "perception", "system", "dream"}

\* Knot(...) raises a validation error when a str field is handed None
KnotValidates(primary_episode_id, start_delta_id, end_delta_id) ==
    None \notin {primary_episode_id, start_delta_id, end_delta_id}

\* the schema-valid deltas the caller passes to append_delta
DeltaInputs ==
    { GenericDelta(x[1], x[2], "observation", 0, Provenance("system", None),
                   ConfDefault, <<"p">>, x[3], <<>>) :
        x \in { <<"d1", "b1", None>>, <<"d2", "b1", None>>,
                <<"d2", "b1", "refs">>, <<"d1", "b2", None>> } }

\* (role, content, provenance_kind) of append_message_delta
MessageInputs ==
    { <<"user", "hello", "user">>, <<"assistant", "hi", "assistant">>,
      <<"tool", "out", "tool">>, <<"user", "hello", "bogus">> }

\* what a call returned: a value, nothing (None), or an exception
Ok(v) == [status |-> "ok", val |-> <<v>>]
OkNone == [status |-> "ok", val |-> <<>>]
Raised == [status |-> "raised", val |-> <<>>]

\* json.dumps / json.loads and model_dump_json / model_validate_json: the text
\* form is a value of its own, distinct from the document it encodes
JsonDumps(v) == <<"json", v>>
JsonLoads(s) == s[2]

\* ---------------------------------------------------------------- state

VARIABLES
    \* InMemoryEpisodicStore
    memDeltas,      \* _deltas
    memKnots,       \* _knots
    memBeads,       \* _beads, in dict insertion order
    memEpisodes,    \* _episodes, in dict insertion order
    memActive,      \* _active_episode_id
    \* the graph database behind Neo4jEpisodicStore
    dbBraids,       \* (:Braid) nodes by id
    dbDeltas,       \* (:Delta) nodes in creation order
    dbKnots,        \* (:Knot) nodes in creation order
    dbBeads,        \* (:Bead) nodes by id
    dbVersions,     \* (:BeadVersion) nodes in creation order
    dbHasVersion,   \* [:HAS_VERSION] relationships
    dbEpisodes,     \* (:Episode) nodes by id
    dbEdges,        \* [:EP_EDGE] relationships
    dbRelTypes,     \* relationship types the database knows
    uniqueIds,      \* whether _ensure_schema's constraints were created
    \* the Neo4jEpisodicStore handle
    epEdgeTypeSeen, \* _ep_edge_type_seen
    \* environment
    uuid,           \* number of ids uuid4() has generated
    clock,          \* datetime.now(timezone.utc)
    \* the caller of Spec
    ops,            \* operations performed
    lastOp,         \* the last operation: its name and arguments
    memRet,         \* what it returned on the reference store
    neoRet,         \* what it returned on the durable store ("raised": it raised)
    hist,           \* history: the arguments and results of the calls that returned
    \* the callers of SpecSeq and SpecEp
    writers,        \* the callers that run
    proc,           \* per caller: the call in progress and its position
    calls,          \* history: the calls started
    outs,           \* history: the calls that ended, with their outcome
    obtained,       \* history: the values _next_seq returned, by call
    snap            \* history: what get_episode returned

memVars == <<memDeltas, memKnots, memBeads, memEpisodes, memActive>>
dbVars == <<dbBraids, dbDeltas, dbKnots, dbBeads, dbVersions, dbHasVersion,
            dbEpisodes, dbEdges, dbRelTypes>>
envVars == <<uniqueIds, uuid, clock>>
durVars == <<writers, proc, calls, outs, obtained, snap>>
callerVars == <<ops, lastOp, memRet, neoRet, hist>>
vars == <<memVars, dbVars, envVars, epEdgeTypeSeen, callerVars, durVars>>

\* ------------------------------------------------------- reference backend

\* Python's s[-limit:]
PyTail(s, limit) ==
    LET n == Len(s)
        start == IF limit > 0 THEN (IF n - limit > 0 THEN n - limit ELSE 0)
                 ELSE IF limit = 0 THEN 0
                 ELSE (IF -limit < n THEN -limit ELSE n)
    IN  SubSeq(s, start + 1, n)

Mem_get_recent_deltas(limit) == IF limit <= 0 THEN <<>> ELSE PyTail(memDeltas, limit)

Mem_get_recent_knots(limit) == IF limit <= 0 THEN <<>> ELSE PyTail(memKnots, limit)

\* mutant: the delta is put at the front of the list
Mem_append_delta_front(d) == memDeltas' = <<d>> \o memDeltas

Mem_append_delta(d) == memDeltas' = Append(memDeltas, d)

Mem_append_message_delta(role, content, provenance_kind) ==
    LET d == GenericDelta(Uuid(uuid + 1), BraidId, "message", clock,
                          Provenance(provenance_kind, None),
                          IF provenance_kind \in {"user", "tool"} THEN 7 ELSE 6,
                          <<"role", role, "content", content>>, None, <<>>)
    IN  IF provenance_kind \notin ProvenanceKind
        THEN UNCHANGED memDeltas /\ memRet' = Raised
        ELSE Mem_append_delta(d) /\ memRet' = Ok(d)

Mem_append_tool_call_delta(tool_name, args, provenance_kind) ==
    LET d == GenericDelta(Uuid(uuid + 1), BraidId, "tool_call", clock,
                          Provenance(provenance_kind, tool_name), 6,
                          <<"tool", tool_name, "args", args>>, None, <<>>)
    IN  IF provenance_kind \notin ProvenanceKind
        THEN UNCHANGED memDeltas /\ memRet' = Raised
        ELSE Mem_append_delta(d) /\ memRet' = Ok(d)

Mem_append_tool_result_delta(tool_name, result, ok, provenance_kind) ==
    LET d == GenericDelta(Uuid(uuid + 1), BraidId, "tool_result", clock,
                          Provenance(provenance_kind, tool_name),
                          IF ok = "true" THEN 7 ELSE 4,
                          <<"tool", tool_name, "ok", ok, "result", result>>, None, <<>>)
    IN  IF provenance_kind \notin ProvenanceKind
        THEN UNCHANGED memDeltas /\ memRet' = Raised
        ELSE Mem_append_delta(d) /\ memRet' = Ok(d)

\* position of the bead in _beads, 0 when absent
MemBeadIndex(bead_id) ==
    IF \E i \in 1..Len(memBeads) : memBeads[i].id = bead_id
    THEN CHOOSE i \in 1..Len(memBeads) : memBeads[i].id = bead_id
    ELSE 0

BeadRef(bead_id, bead_version_id, role) ==
    [bead_id |-> bead_id, bead_version_id |-> bead_version_id, role |-> role]

BeadVersion(id, bead_id, type, created_ts, data) ==
    [id |-> id, bead_id |-> bead_id, type |-> type, created_ts |-> created_ts, data |-> data]

\* mutant: the new version replaces the bead's versions
Mem_upsert_bead_version_replacing(bead_id, bead_type, data, now) ==
    LET i == MemBeadIndex(bead_id)
        beads == IF i = 0
                 THEN Append(memBeads, [id |-> bead_id, type |-> bead_type,
                                        active_version_id |-> None, versions |-> <<>>])
                 ELSE memBeads
        k == IF i = 0 THEN Len(beads) ELSE i
        version_id == Uuid(uuid + 1)
        v == BeadVersion(version_id, bead_id, bead_type, now, data)
    IN  /\ memBeads' = [beads EXCEPT ![k].versions = <<v>>,
                                     ![k].active_version_id = version_id]
        /\ memRet' = Ok(BeadRef(bead_id, version_id, "created"))

Mem_upsert_bead_version(bead_id, bead_type, data, now) ==
    LET i == MemBeadIndex(bead_id)
        beads == IF i = 0
                 THEN Append(memBeads, [id |-> bead_id, type |-> bead_type,
                                        active_version_id |-> None, versions |-> <<>>])
                 ELSE memBeads
        k == IF i = 0 THEN Len(beads) ELSE i
        version_id == Uuid(uuid + 1)
        v == BeadVersion(version_id, bead_id, bead_type, now, data)
    IN  /\ memBeads' = [beads EXCEPT ![k].versions = Append(@, v),
                                     ![k].active_version_id = version_id]
        /\ memRet' = Ok(BeadRef(bead_id, version_id, "created"))

\* rows.sort(key=created_ts): a stable sort
RECURSIVE StableSortByTs(_, _)
StableSortByTs(rows, S) ==
    IF S = {} THEN <<>>
    ELSE LET m == CHOOSE i \in S : \A j \in S :
                      \/ rows[i].created_ts < rows[j].created_ts
                      \/ (rows[i].created_ts = rows[j].created_ts /\ i <= j)
         IN  <<rows[m]>> \o StableSortByTs(rows, S \ {m})

RECURSIVE MemBeadRows(_, _, _)
MemBeadRows(beads, i, bead_type) ==
    IF i > Len(beads) THEN <<>>
    ELSE LET bead == beads[i]
             own == IF bead_type # None /\ bead.type # bead_type THEN <<>>
                    ELSE [j \in 1..Len(bead.versions) |->
                            [bead_id |-> bead.id,
                             bead_version_id |-> bead.versions[j].id,
                             type |-> bead.versions[j].type,
                             created_ts |-> bead.versions[j].created_ts,
                             data |-> bead.versions[j].data]]
         IN  own \o MemBeadRows(beads, i + 1, bead_type)

Mem_get_recent_bead_versions(bead_type, limit) ==
    IF limit <= 0 THEN <<>>
    ELSE LET rows == MemBeadRows(memBeads, 1, bead_type)
         IN  PyTail(StableSortByTs(rows, 1..Len(rows)), limit)

Knot(id, braid_id, primary_episode_id, start_delta_id, end_delta_id, summary, thought_ref) ==
    [id |-> id, braid_id |-> braid_id, primary_episode_id |-> primary_episode_id,
     delta_range |-> [start_delta_id |-> start_delta_id, end_delta_id |-> end_delta_id],
     summary |-> summary, thought_summary_bead_ref |-> thought_ref]

\* knot_id or str(uuid4()): None and the empty string both take a generated id
Mem_commit_knot(primary_episode_id, start_delta_id, end_delta_id, summary, knot_id) ==
    LET knot == Knot(IF knot_id \in {None, ""} THEN Uuid(uuid + 1) ELSE knot_id,
                     BraidId, primary_episode_id, start_delta_id, end_delta_id,
                     summary, <<>>)
    IN  IF ~KnotValidates(primary_episode_id, start_delta_id, end_delta_id)
        THEN UNCHANGED memKnots /\ memRet' = Raised
        ELSE /\ memKnots' = Append(memKnots, knot)
             /\ memRet' = Ok(knot)

MemEpisodeIndex(episode_id) ==
    IF \E i \in 1..Len(memEpisodes) : memEpisodes[i].id = episode_id
    THEN CHOOSE i \in 1..Len(memEpisodes) : memEpisodes[i].id = episode_id
    ELSE 0

\* an optional value: <<>> for None, <<v>> for v
Mem_get_episode(episode_id) ==
    LET i == MemEpisodeIndex(episode_id)
    IN  IF i = 0 THEN <<>> ELSE <<memEpisodes[i]>>

Mem_get_active_episode ==
    IF memActive = None THEN <<>> ELSE Mem_get_episode(memActive)

Mem_set_active_episode_id(episode_id) == memActive' = episode_id

\* self._episodes[ep.id] = ep: a known key keeps its place in the dict
Mem_upsert_episode(ep) ==
    LET i == MemEpisodeIndex(ep.id)
    IN  memEpisodes' = IF i = 0 THEN Append(memEpisodes, ep)
                       ELSE [memEpisodes EXCEPT ![i] = ep]

Mem_list_episodes(state, limit) ==
    LET eps == IF state = None THEN memEpisodes
               ELSE SelectSeq(memEpisodes, LAMBDA e : e.state = state)
    IN  PyTail(eps, limit)

Mem_close == UNCHANGED memVars


\* --------------------------------------------------------- durable backend
\* Each operator named ...Stmt is one Cypher query: the engine runs it as one
\* auto-commit transaction.  Queries take and return database values, so that
\* a handler run by a single caller (Spec) and the same handler interleaved
\* with others (SpecSeq, SpecEp) are built from the same queries.

NewBraid == [next_delta_seq |-> 0, next_knot_seq |-> 0, active_episode_id |-> ""]

\* mutant: SET in place of ON CREATE SET: the root node is reset when it exists
EnsureBraidStmt_resetting(braids, bid) ==
    [b \in DOMAIN braids \cup {bid} |-> IF b = bid THEN NewBraid ELSE braids[b]]

\* _ensure_braid: MERGE (b:Braid {id}) ON CREATE SET the counters to 0
EnsureBraidStmt(braids, bid) ==
    IF bid \in DOMAIN braids THEN braids ELSE braids @@ (bid :> NewBraid)

\* mutant: the delta counter is incremented whatever the field
NextSeqStmt_wrong_field(braids, bid, field) ==
    [braids EXCEPT ![bid]["next_delta_seq"] = @ + 1]

\* mutant: both counters are incremented
NextSeqStmt_both(braids, bid, field) ==
    [braids EXCEPT ![bid]["next_delta_seq"] = @ + 1, ![bid]["next_knot_seq"] = @ + 1]

\* _next_seq: MATCH (b:Braid {id}) SET b.field = coalesce(b.field, 0) + 1 RETURN b.field
NextSeqStmt(braids, bid, field) == [braids EXCEPT ![bid][field] = @ + 1]

\* a CREATE of a node whose id is taken fails when the uniqueness constraint exists
ViolatesUnique(nodes, id) ==
    uniqueIds /\ \E i \in 1..Len(nodes) : nodes[i].id = id

\* the properties append_delta's CREATE (d:Delta {...}) sets
DeltaNode(delta, seq) ==
    [id |-> delta.id, braid_id |-> delta.braid_id, seq |-> seq, kind |-> delta.kind,
     ts |-> delta.ts, confidence |-> delta.confidence,
     provenance_json |-> JsonDumps(delta.provenance),
     payload_json |-> JsonDumps(delta.payload),
     tags_json |-> JsonDumps(delta.tags)]

\* the GenericDelta get_recent_deltas builds from a node
DeltaOfNode(n) ==
    GenericDelta(n.id, n.braid_id, n.kind, n.ts, JsonLoads(n.provenance_json),
                 n.confidence, JsonLoads(n.payload_json), None, JsonLoads(n.tags_json))

\* ORDER BY key DESC: every order of the positions S with non-increasing key
\* (the engine leaves the order of equal keys open)
RECURSIVE DescOrders(_, _)
DescOrders(S, key) ==
    IF S = {} THEN {<<>>}
    ELSE UNION { { <<m>> \o r : r \in DescOrders(S \ {m}, key) } :
                 m \in { i \in S : \A j \in S : key[j] <= key[i] } }

\* LIMIT n of a result
Limit(s, n) == IF n >= Len(s) THEN s ELSE SubSeq(s, 1, n)

\* mutant: the rows are left newest first
Reverse_forgotten(s) == s

Reverse(s) == [i \in 1..Len(s) |-> s[Len(s) + 1 - i]]

\* MATCH (x {braid_id: $bid}) RETURN x ORDER BY x.seq DESC LIMIT $limit:
\* the possible results, as sequences of nodes
RecentBySeqStmt(nodes, bid, limit) ==
    LET S == { i \in 1..Len(nodes) : nodes[i].braid_id = bid }
        key == [i \in 1..Len(nodes) |-> nodes[i].seq]
    IN  { [k \in 1..Len(Limit(o, limit)) |-> nodes[o[k]]] : o \in DescOrders(S, key) }

\* Neo4jEpisodicStore.get_recent_deltas of a store constructed for
\* self_braid_id: the results the query allows
Store_get_recent_deltas(self_braid_id, limit) ==
    IF limit <= 0 THEN {<<>>}
    ELSE { LET r == Reverse(rows) IN [i \in 1..Len(r) |-> DeltaOfNode(r[i])] :
           rows \in RecentBySeqStmt(dbDeltas, self_braid_id, limit) }

\* the same of the store of braid BraidId
Neo_get_recent_deltas(limit) == Store_get_recent_deltas(BraidId, limit)

\* Neo4jEpisodicStore.append_delta as a single caller runs it, the engine
\* failing only on a uniqueness violation: _next_seq, then CREATE
Neo_append_delta_raises(d) == ViolatesUnique(dbDeltas, d.id)

Store_append_delta(self_braid_id, d) ==
    LET braids == NextSeqStmt(dbBraids, self_braid_id, "next_delta_seq")
        seq == braids[self_braid_id].next_delta_seq
    IN  /\ dbBraids' = braids
        /\ dbDeltas' = IF Neo_append_delta_raises(d) THEN dbDeltas
                       ELSE Append(dbDeltas, DeltaNode(d, seq))

Neo_append_delta(d) == Store_append_delta(BraidId, d)

\* mutant: the delta is appended before its provenance is validated
Neo_append_message_delta_unvalidated(role, content, provenance_kind) ==
    LET d == GenericDelta(Uuid(uuid + 1), BraidId, "message", clock,
                          Provenance(provenance_kind, None),
                          IF provenance_kind \in {"user", "tool"} THEN 7 ELSE 6,
                          <<"role", role, "content", content>>, None, <<>>)
    IN  /\ Neo_append_delta(d)
        /\ neoRet' = IF provenance_kind \notin ProvenanceKind \/ Neo_append_delta_raises(d)
                     THEN Raised ELSE Ok(d)

Neo_append_message_delta(role, content, provenance_kind) ==
    LET d == GenericDelta(Uuid(uuid + 1), BraidId, "message", clock,
                          Provenance(provenance_kind, None),
                          IF provenance_kind \in {"user", "tool"} THEN 7 ELSE 6,
                          <<"role", role, "content", content>>, None, <<>>)
    IN  IF provenance_kind \notin ProvenanceKind
        THEN UNCHANGED <<dbBraids, dbDeltas>> /\ neoRet' = Raised
        ELSE /\ Neo_append_delta(d)
             /\ neoRet' = IF Neo_append_delta_raises(d) THEN Raised ELSE Ok(d)

Neo_append_tool_call_delta(tool_name, args, provenance_kind) ==
    LET d == GenericDelta(Uuid(uuid + 1), BraidId, "tool_call", clock,
                          Provenance(provenance_kind, tool_name), 6,
                          <<"tool", tool_name, "args", args>>, None, <<>>)
    IN  IF provenance_kind \notin ProvenanceKind
        THEN UNCHANGED <<dbBraids, dbDeltas>> /\ neoRet' = Raised
        ELSE /\ Neo_append_delta(d)
             /\ neoRet' = IF Neo_append_delta_raises(d) THEN Raised ELSE Ok(d)

\* mutant: the confidence does not follow ok
Neo_append_tool_result_delta_fixed(tool_name, result, ok, provenance_kind) ==
    LET d == GenericDelta(Uuid(uuid + 1), BraidId, "tool_result", clock,
                          Provenance(provenance_kind, tool_name), 7,
                          <<"tool", tool_name, "ok", ok, "result", result>>, None, <<>>)
    IN  IF provenance_kind \notin ProvenanceKind
        THEN UNCHANGED <<dbBraids, dbDeltas>> /\ neoRet' = Raised
        ELSE /\ Neo_append_delta(d)
             /\ neoRet' = IF Neo_append_delta_raises(d) THEN Raised ELSE Ok(d)

Neo_append_tool_result_delta(tool_name, result, ok, provenance_kind) ==
    LET d == GenericDelta(Uuid(uuid + 1), BraidId, "tool_result", clock,
                          Provenance(provenance_kind, tool_name),
                          IF ok = "true" THEN 7 ELSE 4,
                          <<"tool", tool_name, "ok", ok, "result", result>>, None, <<>>)
    IN  IF provenance_kind \notin ProvenanceKind
        THEN UNCHANGED <<dbBraids, dbDeltas>> /\ neoRet' = Raised
        ELSE /\ Neo_append_delta(d)
             /\ neoRet' = IF Neo_append_delta_raises(d) THEN Raised ELSE Ok(d)


\* the properties commit_knot's CREATE (k:Knot {...}) sets
KnotNode(knot, seq, start_delta_id, end_delta_id, thought_ref) ==
    [id |-> knot.id, braid_id |-> knot.braid_id, seq |-> seq,
     primary_episode_id |-> knot.primary_episode_id,
     start_delta_id |-> start_delta_id, end_delta_id |-> end_delta_id,
     summary |-> knot.summary,
     thought_bead_ref_json |-> IF thought_ref = <<>> THEN <<>>
                               ELSE <<JsonDumps(thought_ref[1])>>]

\* the Knot get_recent_knots builds from a node
KnotOfNode(k) ==
    Knot(k.id, k.braid_id, k.primary_episode_id, k.start_delta_id, k.end_delta_id,
         k.summary,
         IF k.thought_bead_ref_json = <<>> THEN <<>>
         ELSE <<JsonLoads(k.thought_bead_ref_json[1])>>)

Store_get_recent_knots(self_braid_id, limit) ==
    IF limit <= 0 THEN {<<>>}
    ELSE { LET r == Reverse(rows) IN [i \in 1..Len(r) |-> KnotOfNode(r[i])] :
           rows \in RecentBySeqStmt(dbKnots, self_braid_id, limit) }

Neo_get_recent_knots(limit) == Store_get_recent_knots(BraidId, limit)

\* mutant: the knot is refused when its start delta is not in the log
Neo_commit_knot_validating(primary_episode_id, start_delta_id, end_delta_id, summary, knot_id) ==
    LET knot == Knot(IF knot_id \in {None, ""} THEN Uuid(uuid + 1) ELSE knot_id,
                     BraidId, primary_episode_id, start_delta_id, end_delta_id,
                     summary, <<>>)
        braids == NextSeqStmt(dbBraids, BraidId, "next_knot_seq")
        seq == braids[BraidId].next_knot_seq
        raises == \/ ViolatesUnique(dbKnots, knot.id)
                  \/ ~\E i \in 1..Len(dbDeltas) : dbDeltas[i].id = start_delta_id
    IN  IF ~KnotValidates(primary_episode_id, start_delta_id, end_delta_id)
        THEN UNCHANGED <<dbBraids, dbKnots>> /\ neoRet' = Raised
        ELSE /\ dbBraids' = braids
             /\ dbKnots' = IF raises THEN dbKnots
                           ELSE Append(dbKnots, KnotNode(knot, seq, start_delta_id,
                                                         end_delta_id, <<>>))
             /\ neoRet' = IF raises THEN Raised ELSE Ok(knot)

\* Neo4jEpisodicStore.commit_knot as a single caller runs it: build the Knot,
\* _next_seq, then CREATE
Store_commit_knot(self_braid_id, primary_episode_id, start_delta_id, end_delta_id, summary, knot_id) ==
    LET knot == Knot(IF knot_id \in {None, ""} THEN Uuid(uuid + 1) ELSE knot_id,
                     self_braid_id, primary_episode_id, start_delta_id, end_delta_id,
                     summary, <<>>)
        braids == NextSeqStmt(dbBraids, self_braid_id, "next_knot_seq")
        seq == braids[self_braid_id].next_knot_seq
        raises == ViolatesUnique(dbKnots, knot.id)
    IN  IF ~KnotValidates(primary_episode_id, start_delta_id, end_delta_id)
        THEN UNCHANGED <<dbBraids, dbKnots>> /\ neoRet' = Raised
        ELSE /\ dbBraids' = braids
             /\ dbKnots' = IF raises THEN dbKnots
                           ELSE Append(dbKnots, KnotNode(knot, seq, start_delta_id,
                                                         end_delta_id, <<>>))
             /\ neoRet' = IF raises THEN Raised ELSE Ok(knot)

Neo_commit_knot(primary_episode_id, start_delta_id, end_delta_id, summary, knot_id) ==
    Store_commit_knot(BraidId, primary_episode_id, start_delta_id, end_delta_id,
                      summary, knot_id)

\* mutant: ON MATCH leaves active_version_id as it was
Neo_upsert_bead_version_no_repoint(bead_id, bead_type, data, now) ==
    LET version_id == Uuid(uuid + 1)
    IN  /\ dbBeads' = IF bead_id \in DOMAIN dbBeads
                      THEN dbBeads
                      ELSE dbBeads @@ (bead_id :> [type |-> bead_type,
                                                   active_version_id |-> version_id])
        /\ dbVersions' = Append(dbVersions,
                                [id |-> version_id, bead_id |-> bead_id,
                                 braid_id |-> BraidId, type |-> bead_type,
                                 created_ts |-> now, data_json |-> JsonDumps(data)])
        /\ dbHasVersion' = dbHasVersion \cup {<<bead_id, version_id>>}
        /\ dbRelTypes' = dbRelTypes \cup {"HAS_VERSION"}
        /\ neoRet' = Ok(BeadRef(bead_id, version_id, "created"))

\* mutant: ON MATCH sets the bead's type as well
Store_upsert_bead_version_retyping(self_braid_id, bead_id, bead_type, data, now) ==
    LET version_id == Uuid(uuid + 1)
    IN  /\ dbBeads' = IF bead_id \in DOMAIN dbBeads
                      THEN [dbBeads EXCEPT ![bead_id] = [type |-> bead_type,
                                                         active_version_id |-> version_id]]
                      ELSE dbBeads @@ (bead_id :> [type |-> bead_type,
                                                   active_version_id |-> version_id])
        /\ dbVersions' = Append(dbVersions,
                                [id |-> version_id, bead_id |-> bead_id,
                                 braid_id |-> self_braid_id, type |-> bead_type,
                                 created_ts |-> now, data_json |-> JsonDumps(data)])
        /\ dbHasVersion' = dbHasVersion \cup {<<bead_id, version_id>>}
        /\ dbRelTypes' = dbRelTypes \cup {"HAS_VERSION"}
        /\ neoRet' = Ok(BeadRef(bead_id, version_id, "created"))

\* upsert_bead_version's query: MERGE the Bead, CREATE the BeadVersion, MERGE
\* the HAS_VERSION relationship, in one statement
Store_upsert_bead_version(self_braid_id, bead_id, bead_type, data, now) ==
    LET version_id == Uuid(uuid + 1)
    IN  /\ dbBeads' = IF bead_id \in DOMAIN dbBeads
                      THEN [dbBeads EXCEPT ![bead_id].active_version_id = version_id]
                      ELSE dbBeads @@ (bead_id :> [type |-> bead_type,
                                                   active_version_id |-> version_id])
        /\ dbVersions' = Append(dbVersions,
                                [id |-> version_id, bead_id |-> bead_id,
                                 braid_id |-> self_braid_id, type |-> bead_type,
                                 created_ts |-> now, data_json |-> JsonDumps(data)])
        /\ dbHasVersion' = dbHasVersion \cup {<<bead_id, version_id>>}
        /\ dbRelTypes' = dbRelTypes \cup {"HAS_VERSION"}
        /\ neoRet' = Ok(BeadRef(bead_id, version_id, "created"))

Neo_upsert_bead_version(bead_id, bead_type, data, now) ==
    Store_upsert_bead_version(BraidId, bead_id, bead_type, data, now)

\* Neo4jEpisodicStore.get_recent_bead_versions: the results the query allows
Store_get_recent_bead_versions(self_braid_id, bead_type, limit) ==
    IF limit <= 0 THEN {<<>>}
    ELSE LET S == { i \in 1..Len(dbVersions) :
                      /\ dbVersions[i].braid_id = self_braid_id
                      /\ (bead_type = None \/ dbVersions[i].type = bead_type) }
             key == [i \in 1..Len(dbVersions) |-> dbVersions[i].created_ts]
             row(v) == [bead_id |-> v.bead_id, bead_version_id |-> v.id,
                        braid_id |-> v.braid_id, type |-> v.type,
                        created_ts |-> v.created_ts, data |-> JsonLoads(v.data_json)]
         IN  { LET r == Reverse(Limit(o, limit))
               IN  [k \in 1..Len(r) |-> row(dbVersions[r[k]])] :
               o \in DescOrders(S, key) }

Neo_get_recent_bead_versions(bead_type, limit) ==
    Store_get_recent_bead_versions(BraidId, bead_type, limit)

\* ---- episodes

\* the order of episode ids as strings (ORDER BY e.id)
EpisodeIdOrder == <<"e1", "e2", "e3">>

EpisodeEdge(type, to_episode_id, confidence) ==
    [type |-> type, to_episode_id |-> to_episode_id, confidence |-> confidence]

\* Episode; scal stands for labels, primary_knot_span, knot_refs, summary_cache
\* and anchor_quotes together
Episode(id, braid_id, state, scal, edges) ==
    [id |-> id, braid_id |-> braid_id, state |-> state, scal |-> scal, edges |-> edges]

\* an (:Episode) node that MERGE (t:Episode {id:$to}) created: the id alone
StubEpisode == [braid_id |-> None, state |-> None, scal_json |-> <<>>]

\* upsert_episode, first query: MERGE (e:Episode {id}) SET the scalar properties
MergeEpisodeStmt(eps, ep) ==
    LET n == [braid_id |-> ep.braid_id, state |-> ep.state,
              scal_json |-> <<JsonDumps(ep.scal)>>]
    IN  IF ep.id \in DOMAIN eps THEN [eps EXCEPT ![ep.id] = n] ELSE eps @@ (ep.id :> n)

\* upsert_episode, second query: MATCH (e {id})-[r:EP_EDGE]->() DELETE r
DeleteEdgesStmt(edges, id) == { r \in edges : r.from # id }

\* upsert_episode, one query per edge: MATCH e, MERGE the target node, MERGE
\* the relationship on its type, SET its confidence
MergeEdgeTargetStmt(eps, id, edge) ==
    IF id \notin DOMAIN eps \/ edge.to_episode_id \in DOMAIN eps THEN eps
    ELSE eps @@ (edge.to_episode_id :> StubEpisode)

MergeEdgeStmt(eps, edges, id, edge) ==
    IF id \notin DOMAIN eps THEN edges
    ELSE { r \in edges : ~(r.from = id /\ r.to = edge.to_episode_id /\ r.type = edge.type) }
         \cup {[from |-> id, to |-> edge.to_episode_id, type |-> edge.type,
                confidence |-> edge.confidence]}

\* get_episode's edge query: the rows (type, to, confidence), in no stated order
EdgeRowsStmt(edges, id) ==
    { [type |-> r.type, to |-> r.to, confidence |-> r.confidence] : r \in { x \in edges : x.from = id } }

\* the Episode get_episode builds from the node and the edge rows; its edges
\* are kept as a set, the rows having no stated order.
\* float(row.get("confidence") or 0.5): a stored 0.0 reads as the default
EpisodeOfNode(id, n, rows, bid) ==
    Episode(id,
            IF n.braid_id = None THEN bid ELSE n.braid_id,
            IF n.state = None THEN "active" ELSE n.state,
            IF n.scal_json = <<>> THEN "empty" ELSE JsonLoads(n.scal_json[1]),
            { EpisodeEdge(row.type, row.to,
                          IF row.confidence = 0 THEN ConfDefault ELSE row.confidence) :
              row \in rows })

\* Neo4jEpisodicStore.get_episode when no query interleaves and none fails
Store_get_episode(self_braid_id, episode_id) ==
    IF episode_id \notin DOMAIN dbEpisodes THEN <<>>
    ELSE <<EpisodeOfNode(episode_id, dbEpisodes[episode_id],
                         IF epEdgeTypeSeen \/ "EP_EDGE" \in dbRelTypes
                         THEN EdgeRowsStmt(dbEdges, episode_id) ELSE {},
                         self_braid_id)>>

Neo_get_episode(episode_id) == Store_get_episode(BraidId, episode_id)

\* set_active_episode_id: MATCH (b:Braid {id}) SET b.active_episode_id = $eid
SetActiveStmt(braids, bid, episode_id) ==
    [braids EXCEPT ![bid].active_episode_id = episode_id]

Neo_set_active_episode_id(episode_id) ==
    dbBraids' = SetActiveStmt(dbBraids, BraidId, episode_id)

\* if not eid: the empty string counts as unset
Store_get_active_episode(self_braid_id) ==
    LET eid == dbBraids[self_braid_id].active_episode_id
    IN  IF eid = "" THEN <<>> ELSE Store_get_episode(self_braid_id, eid)

Neo_get_active_episode == Store_get_active_episode(BraidId)

RECURSIVE MergeEdgesFrom(_, _, _, _, _)
MergeEdgesFrom(eps, edges, id, list, i) ==
    IF i > Len(list) THEN [eps |-> eps, edges |-> edges]
    ELSE MergeEdgesFrom(MergeEdgeTargetStmt(eps, id, list[i]),
                        MergeEdgeStmt(eps, edges, id, list[i]), id, list, i + 1)

\* Neo4jEpisodicStore.upsert_episode as a single caller runs it
Neo_upsert_episode(ep) ==
    LET r == MergeEdgesFrom(MergeEpisodeStmt(dbEpisodes, ep),
                            DeleteEdgesStmt(dbEdges, ep.id), ep.id, ep.edges, 1)
    IN  /\ dbEpisodes' = r.eps
        /\ dbEdges' = r.edges
        /\ dbRelTypes' = IF ep.edges = <<>> THEN dbRelTypes ELSE dbRelTypes \cup {"EP_EDGE"}

\* Neo4jEpisodicStore.list_episodes: ids of the braid by descending id, LIMIT,
\* get_episode of each, reversed.  A negative LIMIT is an error of the engine.
Store_list_episodes(self_braid_id, state, limit) ==
    IF limit < 0 THEN Raised
    ELSE LET S == { id \in DOMAIN dbEpisodes :
                      /\ dbEpisodes[id].braid_id = self_braid_id
                      /\ (state = None \/ dbEpisodes[id].state = state) }
             byRank == { i \in 1..Len(EpisodeIdOrder) : EpisodeIdOrder[i] \in S }
             key == [i \in 1..Len(EpisodeIdOrder) |-> i]
             o == CHOOSE x \in DescOrders(byRank, key) : TRUE
             r == Reverse(Limit(o, limit))
         IN  Ok([k \in 1..Len(r) |->
                    Store_get_episode(self_braid_id, EpisodeIdOrder[r[k]])[1]])

Neo_list_episodes(state, limit) == Store_list_episodes(BraidId, state, limit)

\* close with "except Exception" left out: the driver's error reaches the caller
Neo_close_propagating(driver_close) ==
    /\ UNCHANGED dbVars
    /\ neoRet' = IF driver_close = "raised" THEN Raised ELSE OkNone

\* Neo4jEpisodicStore.close: closes the driver, swallowing its errors
\* (driver_close: what self._driver.close() does, "ok" or "raised")
Neo_close(driver_close) ==
    /\ UNCHANGED dbVars
    /\ neoRet' = IF driver_close = "raised" THEN OkNone ELSE OkNone


\* ------------------------------------------------------------- the callers

Procs == {"p1", "p2"}

\* (primary_episode_id, start_delta_id, end_delta_id, summary, knot_id) of commit_knot
KnotInputs ==
    { <<"e1", r[1], r[2], "sum", k>> : r \in {<<"d1", "d2">>, <<"zz", "zz">>}, k \in {None, "k1"} }
    \cup { <<None, "d1", "d2", "sum", None>> }

\* (bead_id, bead_type) of upsert_bead_version
BeadInputs == {"reasoning-summary", "bx"} \X {"reasoning_bead", "memory_bead"}

\* the states of an episode the stores read (EpisodeState)
EpisodeStates == {"active", "closed"}

EdgeA == EpisodeEdge("related_to", "e2", 8)
EdgeB == EpisodeEdge("depends_on", "e3", 10)
EdgeZ == EpisodeEdge("related_to", "e2", 0)
EdgeLists == { <<>>, <<EdgeA>>, <<EdgeA, EdgeB>>, <<EdgeB, EdgeB>>, <<EdgeZ>> }

EpisodeInputs ==
    { Episode("e1", BraidId, sc[1], sc[2], edges) :
        sc \in {<<"active", "s1">>, <<"closed", "s2">>}, edges \in EdgeLists }
    \cup { Episode("e2", BraidId, "active", "s1", <<>>) }

ActiveInputs == {"e1", "e3", ""}

\* the arguments of the reads: a limit below and a limit above the number of
\* stored items, every bead type, state filter and episode id
Big == MaxOps + 1
ReadLimits == {1, Big}
BeadTypes == {"reasoning_bead", "memory_bead"}
EpisodeStateFilters == EpisodeStates \cup {None}
EpisodeIds == {"e1", "e2", "e3"}

Idle == [op |-> "idle", pc |-> "idle", n |-> 0, arg |-> <<>>, seq |-> 0, c0 |-> 0,
         i |-> 0, node |-> <<>>]

\* the state after InMemoryEpisodicStore(braid_id) and Neo4jEpisodicStore(braid_id, ...)
\* on an empty database
InitStores ==
    /\ memDeltas = <<>> /\ memKnots = <<>> /\ memBeads = <<>>
    /\ memEpisodes = <<>> /\ memActive = None
    /\ dbBraids = EnsureBraidStmt(<<>>, BraidId)
    /\ dbDeltas = <<>> /\ dbKnots = <<>>
    /\ dbBeads = <<>> /\ dbVersions = <<>> /\ dbHasVersion = {}
    /\ dbEpisodes = <<>> /\ dbEdges = {} /\ dbRelTypes = {}
    /\ uniqueIds \in BOOLEAN
    /\ epEdgeTypeSeen = FALSE
    /\ uuid = 0 /\ clock = 1
    /\ ops = 0
    /\ lastOp = [op |-> "init", arg |-> <<>>]
    /\ memRet = OkNone /\ neoRet = OkNone
    /\ hist = [mem |-> <<>>, neo |-> <<>>, memK |-> <<>>, neoK |-> <<>>, beads |-> <<>>,
               upserted |-> {}, active |-> <<>>, closes |-> 0,
               reopened |-> {}]
    /\ calls = {} /\ outs = {} /\ obtained = {} /\ snap = {}
    /\ proc = [p \in Procs |-> Idle]

Init == InitStores /\ writers = {}

\* what every operation of the single caller does besides its effect on the stores
\* (the caller does not use the stores after it closed them, except to close again)
Step(op, arg) ==
    /\ ops < MaxOps
    /\ hist.closes = 0
    /\ ops' = ops + 1
    /\ lastOp' = [op |-> op, arg |-> arg]
    /\ UNCHANGED <<durVars, uniqueIds>>

AppendDelta ==
    \E d \in DeltaInputs :
        /\ Step("append_delta", <<d>>)
        /\ Mem_append_delta(d) /\ memRet' = OkNone
        /\ Neo_append_delta(d)
        /\ neoRet' = IF Neo_append_delta_raises(d) THEN Raised ELSE OkNone
        /\ hist' = [hist EXCEPT !.mem = Append(@, d),
                                 !.neo = IF Neo_append_delta_raises(d) THEN @
                                         ELSE Append(@, d)]
        /\ UNCHANGED <<memKnots, memBeads, memEpisodes, memActive, dbKnots, dbBeads,
                       dbVersions, dbHasVersion, dbEpisodes, dbEdges, dbRelTypes,
                       epEdgeTypeSeen, uuid, clock>>

\* the convenience appenders: what they leave alone, and the history
Appender ==
    /\ uuid' = uuid + 1
    /\ hist' = [hist EXCEPT !.mem = IF memRet'.status = "ok"
                                     THEN Append(@, memRet'.val[1]) ELSE @,
                             !.neo = IF neoRet'.status = "ok"
                                     THEN Append(@, neoRet'.val[1]) ELSE @]
    /\ UNCHANGED <<memKnots, memBeads, memEpisodes, memActive, dbKnots, dbBeads,
                   dbVersions, dbHasVersion, dbEpisodes, dbEdges, dbRelTypes,
                   epEdgeTypeSeen, clock>>

AppendMessageDelta ==
    \E m \in MessageInputs :
        /\ Step("append_message_delta", m)
        /\ Mem_append_message_delta(m[1], m[2], m[3])
        /\ Neo_append_message_delta(m[1], m[2], m[3])
        /\ Appender

AppendToolCallDelta ==
    /\ Step("append_tool_call_delta", <<"t">>)
    /\ Mem_append_tool_call_delta("t", "args", "assistant")
    /\ Neo_append_tool_call_delta("t", "args", "assistant")
    /\ Appender

AppendToolResultDelta ==
    \E ok \in {"true", "false"} :
        /\ Step("append_tool_result_delta", <<ok>>)
        /\ Mem_append_tool_result_delta("t", "res", ok, "tool")
        /\ Neo_append_tool_result_delta("t", "res", ok, "tool")
        /\ Appender

CommitKnot ==
    \E k \in KnotInputs :
        /\ Step("commit_knot", k)
        /\ Mem_commit_knot(k[1], k[2], k[3], k[4], k[5])
        /\ Neo_commit_knot(k[1], k[2], k[3], k[4], k[5])
        /\ uuid' = IF k[5] \in {None, ""} THEN uuid + 1 ELSE uuid
        /\ hist' = [hist EXCEPT !.memK = IF memRet'.status = "ok"
                                          THEN Append(@, memRet'.val[1]) ELSE @,
                                 !.neoK = IF neoRet'.status = "ok"
                                          THEN Append(@, neoRet'.val[1]) ELSE @]
        /\ UNCHANGED <<memDeltas, memBeads, memEpisodes, memActive, dbDeltas, dbBeads,
                       dbVersions, dbHasVersion, dbEpisodes, dbEdges, dbRelTypes,
                       epEdgeTypeSeen, clock>>

\* datetime.now(): the clock has advanced since the last reading, or has not
UpsertBeadVersion ==
    \E b \in BeadInputs, now \in {clock, clock + 1} :
        /\ Step("upsert_bead_version", b)
        /\ Mem_upsert_bead_version(b[1], b[2], "data", now)
        /\ Neo_upsert_bead_version(b[1], b[2], "data", now)
        /\ uuid' = uuid + 1
        /\ clock' = now
        /\ hist' = [hist EXCEPT !.beads = Append(@, [bead_id |-> b[1],
                                                      mem |-> memRet'.val[1],
                                                      neo |-> neoRet'.val[1]])]
        /\ UNCHANGED <<memDeltas, memKnots, memEpisodes, memActive, dbBraids, dbDeltas,
                       dbKnots, dbEpisodes, dbEdges, epEdgeTypeSeen>>

UpsertEpisode ==
    \E ep \in EpisodeInputs :
        /\ Step("upsert_episode", <<ep>>)
        /\ Mem_upsert_episode(ep) /\ memRet' = OkNone
        /\ Neo_upsert_episode(ep) /\ neoRet' = OkNone
        /\ hist' = [hist EXCEPT !.upserted = @ \cup {ep.id}]
        /\ UNCHANGED <<memDeltas, memKnots, memBeads, memActive, dbBraids, dbDeltas,
                       dbKnots, dbBeads, dbVersions, dbHasVersion,
                       epEdgeTypeSeen, uuid, clock>>

SetActiveEpisodeId ==
    \E eid \in ActiveInputs :
        /\ Step("set_active_episode_id", <<eid>>)
        /\ Mem_set_active_episode_id(eid) /\ memRet' = OkNone
        /\ Neo_set_active_episode_id(eid) /\ neoRet' = OkNone
        /\ hist' = [hist EXCEPT !.active = <<eid>>]
        /\ UNCHANGED <<memDeltas, memKnots, memBeads, memEpisodes, dbDeltas,
                       dbKnots, dbBeads, dbVersions, dbHasVersion, dbEpisodes, dbEdges,
                       dbRelTypes, epEdgeTypeSeen, uuid, clock>>

\* what a read leaves alone
Read == UNCHANGED <<memVars, dbVars, uuid, clock, hist>>

\* get_episode has seen the EP_EDGE type when it found the episode and the
\* database knows the type (_relationship_type_exists)
SeesEdgeType(found) == epEdgeTypeSeen \/ (found /\ "EP_EDGE" \in dbRelTypes)

GetRecentDeltas ==
    \E l \in ReadLimits :
        /\ Step("get_recent_deltas", <<l>>)
        /\ memRet' = Ok(Mem_get_recent_deltas(l))
        /\ \E r \in Neo_get_recent_deltas(l) : neoRet' = Ok(r)
        /\ Read /\ UNCHANGED epEdgeTypeSeen

GetRecentKnots ==
    \E l \in ReadLimits :
        /\ Step("get_recent_knots", <<l>>)
        /\ memRet' = Ok(Mem_get_recent_knots(l))
        /\ \E r \in Neo_get_recent_knots(l) : neoRet' = Ok(r)
        /\ Read /\ UNCHANGED epEdgeTypeSeen

GetRecentBeadVersions ==
    \E t \in BeadTypes \cup {None} :
        /\ Step("get_recent_bead_versions", <<t, Big>>)
        /\ memRet' = Ok(Mem_get_recent_bead_versions(t, Big))
        /\ \E r \in Neo_get_recent_bead_versions(t, Big) : neoRet' = Ok(r)
        /\ Read /\ UNCHANGED epEdgeTypeSeen

GetEpisode ==
    \E id \in EpisodeIds :
        /\ Step("get_episode", <<id>>)
        /\ memRet' = Ok(Mem_get_episode(id))
        /\ neoRet' = Ok(Neo_get_episode(id))
        /\ epEdgeTypeSeen' = SeesEdgeType(Neo_get_episode(id) # <<>>)
        /\ Read

ListEpisodes ==
    \E s \in EpisodeStateFilters, l \in ReadLimits :
        /\ Step("list_episodes", <<s, l>>)
        /\ memRet' = Ok(Mem_list_episodes(s, l))
        /\ neoRet' = Neo_list_episodes(s, l)
        /\ epEdgeTypeSeen' = SeesEdgeType(Neo_list_episodes(s, l).val[1] # <<>>)
        /\ Read

GetActiveEpisode ==
    /\ Step("get_active_episode", <<>>)
    /\ memRet' = Ok(Mem_get_active_episode)
    /\ neoRet' = Ok(Neo_get_active_episode)
    /\ epEdgeTypeSeen' = SeesEdgeType(Neo_get_active_episode # <<>>)
    /\ Read

\* close() on both stores; the driver closes, or fails to
Close ==
    \E driver_close \in {"ok", "raised"} :
        /\ ops < MaxOps
        /\ ops' = ops + 1
        /\ lastOp' = [op |-> "close", arg |-> <<driver_close>>]
        /\ Mem_close /\ memRet' = OkNone
        /\ Neo_close(driver_close)
        /\ hist' = [hist EXCEPT !.closes = @ + 1]
        /\ UNCHANGED <<envVars, epEdgeTypeSeen, durVars>>

Next ==
    \/ AppendDelta
    \/ AppendMessageDelta
    \/ AppendToolCallDelta
    \/ AppendToolResultDelta
    \/ CommitKnot
    \/ UpsertBeadVersion
    \/ UpsertEpisode
    \/ SetActiveEpisodeId
    \/ GetRecentDeltas
    \/ GetRecentKnots
    \/ GetRecentBeadVersions
    \/ GetEpisode
    \/ ListEpisodes
    \/ GetActiveEpisode
    \/ Close

Spec == Init /\ [][Next]_vars



\* ------------------------------------------- the durable store, interleaved
\* The callers share one Neo4jEpisodicStore handle.  Every session.run of a
\* handler is one step; between two steps of a call the other caller may run,
\* and the engine may fail any query, which raises out of the handler.

DurDeltaInputs == { d \in DeltaInputs : d.refs = None }
DurKnotInputs == { k \in KnotInputs : k[2] = "d1" /\ KnotValidates(k[1], k[2], k[3]) }
DurEpisodeInputs ==
    { ep \in EpisodeInputs : ep.id = "e1" /\ ep.edges \in {<<>>, <<EdgeA>>, <<EdgeA, EdgeB>>} }

InitDur == InitStores /\ writers \in {{"p1"}, Procs}

Started(p) == Cardinality({ c \in calls : c.p = p })

\* a caller enters a handler; nothing has reached the database yet
Begin(p, op, arg, pc) ==
    /\ p \in writers
    /\ proc[p].op = "idle"
    /\ Cardinality(calls) < MaxCalls
    /\ proc' = [proc EXCEPT ![p] = [op |-> op, pc |-> pc, n |-> Started(p) + 1,
                                    arg |-> arg, seq |-> 0,
                                    c0 |-> IF op = "commit_knot"
                                           THEN dbBraids[BraidId].next_knot_seq
                                           ELSE dbBraids[BraidId].next_delta_seq,
                                    i |-> 1, node |-> <<>>]]
    /\ calls' = calls \cup {[p |-> p, n |-> Started(p) + 1, op |-> op, arg |-> arg]}

\* the handler returns or raises
End(p, out) ==
    /\ proc' = [proc EXCEPT ![p] = Idle]
    /\ outs' = outs \cup {[p |-> p, n |-> proc[p].n, op |-> proc[p].op,
                           arg |-> proc[p].arg, out |-> out, seq |-> proc[p].seq,
                           c0 |-> proc[p].c0]}

DurFrame == UNCHANGED <<memVars, callerVars, writers, uniqueIds, clock>>

BeginAppendDelta(p) ==
    \E d \in DurDeltaInputs :
        /\ Begin(p, "append_delta", <<d>>, "next_seq")
        /\ UNCHANGED <<dbVars, epEdgeTypeSeen, uuid, outs, obtained, snap>>
        /\ DurFrame

\* commit_knot builds the Knot, and so draws its id, before its first query
BeginCommitKnot(p) ==
    \E k \in DurKnotInputs :
        /\ Begin(p, "commit_knot",
                 <<Knot(IF k[5] \in {None, ""} THEN Uuid(uuid + 1) ELSE k[5], BraidId,
                        k[1], k[2], k[3], k[4], <<>>)>>, "next_seq")
        /\ uuid' = IF k[5] \in {None, ""} THEN uuid + 1 ELSE uuid
        /\ UNCHANGED <<dbVars, epEdgeTypeSeen, outs, obtained, snap>>
        /\ DurFrame

BeginUpsertEpisode(p) ==
    \E ep \in DurEpisodeInputs :
        /\ Begin(p, "upsert_episode", <<ep>>, "merge")
        /\ UNCHANGED <<dbVars, epEdgeTypeSeen, uuid, outs, obtained, snap>>
        /\ DurFrame

BeginGetEpisode(p) ==
    /\ Begin(p, "get_episode", <<"e1">>, "match")
    /\ UNCHANGED <<dbVars, epEdgeTypeSeen, uuid, outs, obtained, snap>>
    /\ DurFrame

\* mutant: the counter is read when the call begins and written back later,
\* in two transactions
NextSeqStep_stale(p) ==
    /\ proc[p].pc = "next_seq"
    /\ LET field == IF proc[p].op = "commit_knot" THEN "next_knot_seq" ELSE "next_delta_seq"
           braids == [dbBraids EXCEPT ![BraidId][field] = proc[p].c0 + 1]
       IN  /\ dbBraids' = braids
           /\ proc' = [proc EXCEPT ![p].seq = braids[BraidId][field], ![p].pc = "create"]
           /\ obtained' = obtained \cup {[p |-> p, n |-> proc[p].n, field |-> field,
                                            seq |-> braids[BraidId][field]]}
    /\ UNCHANGED <<dbDeltas, dbKnots, dbBeads, dbVersions, dbHasVersion, dbEpisodes,
                   dbEdges, dbRelTypes, epEdgeTypeSeen, uuid, calls, outs, snap>>
    /\ DurFrame

\* _next_seq, called by append_delta and commit_knot
NextSeqStep(p) ==
    /\ proc[p].pc = "next_seq"
    /\ LET field == IF proc[p].op = "commit_knot" THEN "next_knot_seq" ELSE "next_delta_seq"
           braids == NextSeqStmt(dbBraids, BraidId, field)
       IN  /\ dbBraids' = braids
           /\ proc' = [proc EXCEPT ![p].seq = braids[BraidId][field], ![p].pc = "create"]
           /\ obtained' = obtained \cup {[p |-> p, n |-> proc[p].n, field |-> field,
                                            seq |-> braids[BraidId][field]]}
    /\ UNCHANGED <<dbDeltas, dbKnots, dbBeads, dbVersions, dbHasVersion, dbEpisodes,
                   dbEdges, dbRelTypes, epEdgeTypeSeen, uuid, calls, outs, snap>>
    /\ DurFrame

\* append_delta's CREATE (d:Delta {...})
CreateDeltaStep(p) ==
    /\ proc[p].pc = "create" /\ proc[p].op = "append_delta"
    /\ LET d == proc[p].arg[1]
       IN  IF ViolatesUnique(dbDeltas, d.id)
           THEN End(p, "raised") /\ UNCHANGED dbDeltas
           ELSE End(p, "ok") /\ dbDeltas' = Append(dbDeltas, DeltaNode(d, proc[p].seq))
    /\ UNCHANGED <<dbBraids, dbKnots, dbBeads, dbVersions, dbHasVersion, dbEpisodes,
                   dbEdges, dbRelTypes, epEdgeTypeSeen, uuid, calls, obtained, snap>>
    /\ DurFrame

\* commit_knot's CREATE (k:Knot {...})
CreateKnotStep(p) ==
    /\ proc[p].pc = "create" /\ proc[p].op = "commit_knot"
    /\ LET k == proc[p].arg[1]
       IN  IF ViolatesUnique(dbKnots, k.id)
           THEN End(p, "raised") /\ UNCHANGED dbKnots
           ELSE End(p, "ok")
                /\ dbKnots' = Append(dbKnots,
                                     KnotNode(k, proc[p].seq, k.delta_range.start_delta_id,
                                              k.delta_range.end_delta_id, <<>>))
    /\ UNCHANGED <<dbBraids, dbDeltas, dbBeads, dbVersions, dbHasVersion, dbEpisodes,
                   dbEdges, dbRelTypes, epEdgeTypeSeen, uuid, calls, obtained, snap>>
    /\ DurFrame

\* upsert_episode: MERGE (e:Episode {id}) SET ...
MergeEpisodeStep(p) ==
    /\ proc[p].pc = "merge"
    /\ dbEpisodes' = MergeEpisodeStmt(dbEpisodes, proc[p].arg[1])
    /\ proc' = [proc EXCEPT ![p].pc = "delete"]
    /\ UNCHANGED <<dbBraids, dbDeltas, dbKnots, dbBeads, dbVersions, dbHasVersion,
                   dbEdges, dbRelTypes, epEdgeTypeSeen, uuid, calls, outs, obtained, snap>>
    /\ DurFrame

\* upsert_episode: DELETE the outgoing edges
DeleteEdgesStep(p) ==
    /\ proc[p].pc = "delete"
    /\ dbEdges' = DeleteEdgesStmt(dbEdges, proc[p].arg[1].id)
    /\ IF proc[p].arg[1].edges = <<>>
       THEN End(p, "ok")
       ELSE proc' = [proc EXCEPT ![p].pc = "edge", ![p].i = 1] /\ UNCHANGED outs
    /\ UNCHANGED <<dbBraids, dbDeltas, dbKnots, dbBeads, dbVersions, dbHasVersion,
                   dbEpisodes, dbRelTypes, epEdgeTypeSeen, uuid, calls, obtained, snap>>
    /\ DurFrame

\* upsert_episode: the query of the loop over ep.edges
MergeEdgeStep(p) ==
    /\ proc[p].pc = "edge"
    /\ LET ep == proc[p].arg[1]
           edge == ep.edges[proc[p].i]
       IN  /\ dbEpisodes' = MergeEdgeTargetStmt(dbEpisodes, ep.id, edge)
           /\ dbEdges' = MergeEdgeStmt(dbEpisodes, dbEdges, ep.id, edge)
           /\ dbRelTypes' = dbRelTypes \cup {"EP_EDGE"}
           /\ IF proc[p].i = Len(ep.edges)
              THEN End(p, "ok")
              ELSE proc' = [proc EXCEPT ![p].i = @ + 1] /\ UNCHANGED outs
    /\ UNCHANGED <<dbBraids, dbDeltas, dbKnots, dbBeads, dbVersions, dbHasVersion,
                   epEdgeTypeSeen, uuid, calls, obtained, snap>>
    /\ DurFrame

\* get_episode returns
Return(p, result) ==
    /\ End(p, "ok")
    /\ snap' = snap \cup {[p |-> p, n |-> proc[p].n, id |-> proc[p].arg[1], result |-> result]}

\* get_episode: MATCH (e:Episode {id}) RETURN e
GetMatchStep(p) ==
    /\ proc[p].pc = "match"
    /\ LET id == proc[p].arg[1]
       IN  IF id \notin DOMAIN dbEpisodes
           THEN Return(p, <<>>)
           ELSE /\ proc' = [proc EXCEPT ![p].node = <<dbEpisodes[id]>>,
                                        ![p].pc = IF epEdgeTypeSeen THEN "edges" ELSE "types"]
                /\ UNCHANGED <<outs, snap>>
    /\ UNCHANGED <<dbVars, epEdgeTypeSeen, uuid, calls, obtained>>
    /\ DurFrame

\* get_episode: _relationship_type_exists("EP_EDGE"), not cached
GetTypesStep(p) ==
    /\ proc[p].pc = "types"
    /\ IF "EP_EDGE" \in dbRelTypes
       THEN /\ epEdgeTypeSeen' = TRUE
            /\ proc' = [proc EXCEPT ![p].pc = "edges"]
            /\ UNCHANGED <<outs, snap>>
       ELSE /\ Return(p, <<EpisodeOfNode(proc[p].arg[1], proc[p].node[1], {}, BraidId)>>)
            /\ UNCHANGED epEdgeTypeSeen
    /\ UNCHANGED <<dbVars, uuid, calls, obtained>>
    /\ DurFrame

\* _relationship_type_exists: the query fails, the except clause answers False
GetTypesFails(p) ==
    /\ proc[p].pc = "types"
    /\ Return(p, <<EpisodeOfNode(proc[p].arg[1], proc[p].node[1], {}, BraidId)>>)
    /\ UNCHANGED <<dbVars, epEdgeTypeSeen, uuid, calls, obtained>>
    /\ DurFrame

\* get_episode: the edge query
GetEdgesStep(p) ==
    /\ proc[p].pc = "edges"
    /\ Return(p, <<EpisodeOfNode(proc[p].arg[1], proc[p].node[1],
                                 EdgeRowsStmt(dbEdges, proc[p].arg[1]), BraidId)>>)
    /\ UNCHANGED <<dbVars, epEdgeTypeSeen, uuid, calls, obtained>>
    /\ DurFrame

\* the engine fails the query a call is about to run (network error, failed
\* transaction): the exception leaves the handler, nothing of the query is stored
QueryFails(p) ==
    /\ proc[p].pc \in {"next_seq", "create", "merge", "delete", "edge", "match", "edges"}
    /\ End(p, "raised")
    /\ UNCHANGED <<dbVars, epEdgeTypeSeen, uuid, calls, obtained, snap>>
    /\ DurFrame

\* append_delta and commit_knot, interleaved
NextSeq ==
    \E p \in Procs :
        \/ BeginAppendDelta(p)
        \/ BeginCommitKnot(p)
        \/ NextSeqStep(p)
        \/ CreateDeltaStep(p)
        \/ CreateKnotStep(p)
        \/ QueryFails(p)

SpecSeq == InitDur /\ [][NextSeq]_vars

\* upsert_episode and get_episode, interleaved
NextEp ==
    \E p \in Procs :
        \/ BeginUpsertEpisode(p)
        \/ BeginGetEpisode(p)
        \/ MergeEpisodeStep(p)
        \/ DeleteEdgesStep(p)
        \/ MergeEdgeStep(p)
        \/ GetMatchStep(p)
        \/ GetTypesStep(p)
        \/ GetTypesFails(p)
        \/ GetEdgesStep(p)
        \/ QueryFails(p)

SpecEp == InitDur /\ [][NextEp]_vars


\* ------------------------------------------------------------- properties

\* the limits the reads are tried with
Limits == (-2)..(MaxOps + 1)

\* the last min(limit, n) items of a log of n items, oldest first
Window(log, limit) ==
    LET n == Len(log)
        m == IF limit < n THEN limit ELSE n
    IN  IF limit <= 0 THEN <<>> ELSE [i \in 1..m |-> log[n - m + i]]

\* C1: reference backend, append-only: whatever sequence of appends
\* (append_delta and the three convenience appenders) and other operations
\* ran, get_recent_deltas(N) with N >= the number of appends returns exactly
\* the appended deltas, each once, in insertion order, oldest first.
C1_AppendOnly ==
    \A N \in Len(hist.mem)..(MaxOps + 1) : Mem_get_recent_deltas(N) = hist.mem

\* two appends, the second through a convenience appender, and a knot commit
C1_Witness ==
    /\ Len(hist.mem) = 2
    /\ hist.mem[1].kind = "observation" /\ hist.mem[2].kind = "message"
    /\ Len(memKnots) = 1
    /\ lastOp.op = "append_message_delta"


\* the Delta / Knot nodes stored for the braid, in the order they were created,
\* as the entities the reads build of them
StoredDeltas ==
    LET ns == SelectSeq(dbDeltas, LAMBDA n : n.braid_id = BraidId)
    IN  [i \in 1..Len(ns) |-> DeltaOfNode(ns[i])]

StoredKnots ==
    LET ns == SelectSeq(dbKnots, LAMBDA n : n.braid_id = BraidId)
    IN  [i \in 1..Len(ns) |-> KnotOfNode(ns[i])]

\* C2: on either backend, for every limit and every store state with n deltas
\* (knots), get_recent_deltas(limit) (get_recent_knots(limit)) is empty when
\* limit <= 0 and otherwise exactly the last min(limit, n) items of the log,
\* oldest first.  The log of the reference store is the history of its appends;
\* the log of the durable store is the nodes stored for the braid, in the order
\* they were created.
C2_RecentWindow ==
    \A limit \in Limits :
        /\ Mem_get_recent_deltas(limit) = Window(hist.mem, limit)
        /\ Mem_get_recent_knots(limit) = Window(hist.memK, limit)
        /\ Neo_get_recent_deltas(limit) = {Window(StoredDeltas, limit)}
        /\ Neo_get_recent_knots(limit) = {Window(StoredKnots, limit)}

\* the scenario: a user message "hello", then an assistant message "hi";
\* limit 1 returns the assistant delta alone, limit 2 both, the user's first
C2_Witness ==
    /\ Len(hist.mem) = 2
    /\ hist.mem[1].payload = <<"role", "user", "content", "hello">>
    /\ hist.mem[2].payload = <<"role", "assistant", "content", "hi">>
    /\ Mem_get_recent_deltas(1) = <<hist.mem[2]>>
    /\ Mem_get_recent_deltas(2) = hist.mem
    /\ Neo_get_recent_deltas(1) = {<<hist.mem[2]>>}
    /\ Neo_get_recent_deltas(2) = {hist.mem}
    /\ Len(hist.memK) = 1


\* a limit no smaller than the number of deltas a run can append

\* the step is a call of append_delta
IsAppendDelta == ops' = ops + 1 /\ lastOp'.op = "append_delta"

\* C3: on either backend, for every schema-valid delta d, whatever its id and
\* braid_id and whatever is stored, append_delta(d) succeeds, the number of
\* deltas get_recent_deltas returns for a large limit grows by exactly one, and
\* d (told by its id) is the last of them.
C3_AppendVisible ==
    [][ IsAppendDelta =>
          LET d == lastOp'.arg[1]
          IN  /\ memRet'.status = "ok"
              /\ Len(Mem_get_recent_deltas(Big)') = Len(Mem_get_recent_deltas(Big)) + 1
              /\ Mem_get_recent_deltas(1)'[1].id = d.id
              /\ neoRet'.status = "ok"
              /\ \A r \in Neo_get_recent_deltas(Big), r2 \in Neo_get_recent_deltas(Big)' :
                    /\ Len(r2) = Len(r) + 1
                    /\ r2[Len(r2)].id = d.id ]_vars

\* ---- C4

\* a bead-version row of the durable store carries the row of the reference
\* store (it adds its braid_id)
SameRow(m, n) ==
    /\ m.bead_id = n.bead_id /\ m.bead_version_id = n.bead_version_id
    /\ m.type = n.type /\ m.created_ts = n.created_ts /\ m.data = n.data

\* the same episode, the edges of the durable store in any order
SameEpisode(m, n) ==
    /\ m.id = n.id /\ m.braid_id = n.braid_id /\ m.state = n.state /\ m.scal = n.scal
    /\ Len(m.edges) = Cardinality(n.edges)
    /\ { m.edges[i] : i \in 1..Len(m.edges) } = n.edges

SameOptEpisode(m, n) ==
    /\ Len(m) = Len(n)
    /\ m # <<>> => SameEpisode(m[1], n[1])


\* C4: backend equivalence: after every sequence of operations applied to both
\* stores, every read returns the same on both: same items, same order, same
\* field values (list_episodes is compared for positive limits).
C4_Equivalence ==
    /\ \A limit \in Limits :
        /\ Neo_get_recent_deltas(limit) = {Mem_get_recent_deltas(limit)}
        /\ Neo_get_recent_knots(limit) = {Mem_get_recent_knots(limit)}
        /\ \A t \in BeadTypes \cup {None} :
             LET m == Mem_get_recent_bead_versions(t, limit)
             IN  \A r \in Neo_get_recent_bead_versions(t, limit) :
                    /\ Len(r) = Len(m)
                    /\ \A i \in 1..Len(m) : SameRow(m[i], r[i])
    /\ \A id \in EpisodeIds : SameOptEpisode(Mem_get_episode(id), Neo_get_episode(id))
    /\ SameOptEpisode(Mem_get_active_episode, Neo_get_active_episode)
    /\ \A state \in EpisodeStates \cup {None}, limit \in 1..Big :
         LET m == Mem_list_episodes(state, limit)
             n == Neo_list_episodes(state, limit)
         IN  /\ n.status = "ok"
             /\ Len(n.val[1]) = Len(m)
             /\ \A i \in 1..Len(m) : SameEpisode(m[i], n.val[1][i])


\* ---- C5

SeqFields == {"next_delta_seq", "next_knot_seq"}

\* the seq values grow strictly along the nodes of the braid, in creation order
StrictlyIncreasingSeq(nodes) ==
    LET ns == SelectSeq(nodes, LAMBDA n : n.braid_id = BraidId)
    IN  \A i, j \in 1..Len(ns) : i < j => ns[i].seq < ns[j].seq

\* the call that ends in this step, when one ends normally
EndsOk(op) ==
    { o \in outs' \ outs : o.op = op /\ o.out = "ok" }

\* C5: durable backend, a single writer: a counter never decreases; every
\* successful append_delta (commit_knot) has raised next_delta_seq
\* (next_knot_seq) by exactly one and stores its node with seq equal to the new
\* counter value; the seq values of the braid's deltas (knots) are distinct
\* and strictly increasing in append order, and get_recent_deltas
\* (get_recent_knots) returns them in that order.
C5_SingleWriterSeq ==
    [][ Cardinality(writers) = 1 =>
          /\ \A f \in SeqFields : dbBraids'[BraidId][f] >= dbBraids[BraidId][f]
          /\ \A o \in EndsOk("append_delta") :
                /\ dbBraids'[BraidId].next_delta_seq = o.c0 + 1
                /\ Len(dbDeltas') = Len(dbDeltas) + 1
                /\ dbDeltas'[Len(dbDeltas')].id = o.arg[1].id
                /\ dbDeltas'[Len(dbDeltas')].seq = dbBraids'[BraidId].next_delta_seq
          /\ \A o \in EndsOk("commit_knot") :
                /\ dbBraids'[BraidId].next_knot_seq = o.c0 + 1
                /\ Len(dbKnots') = Len(dbKnots) + 1
                /\ dbKnots'[Len(dbKnots')].id = o.arg[1].id
                /\ dbKnots'[Len(dbKnots')].seq = dbBraids'[BraidId].next_knot_seq
          /\ StrictlyIncreasingSeq(dbDeltas') /\ StrictlyIncreasingSeq(dbKnots')
          /\ Neo_get_recent_deltas(MaxCalls)' = {StoredDeltas'}
          /\ Neo_get_recent_knots(MaxCalls)' = {StoredKnots'} ]_vars

\* one writer: an append, an append whose CREATE failed after _next_seq, and
\* a third append that succeeded with seq 3
C5_Witness ==
    /\ writers = {"p1"}
    /\ Len(dbDeltas) = 2 /\ dbDeltas[1].seq = 1 /\ dbDeltas[2].seq = 3
    /\ dbBraids[BraidId].next_delta_seq = 3

\* C6: durable backend, concurrent writers on one braid: the increment of the
\* sequence counter is atomic: no two calls obtain the same seq of a counter,
\* and each counter equals its initial value 0 plus the number of calls that
\* ran _next_seq on it (no update is lost).
C6_NoLostUpdate ==
    /\ \A o1, o2 \in obtained : (o1 # o2 /\ o1.field = o2.field) => o1.seq # o2.seq
    /\ \A f \in SeqFields :
          dbBraids[BraidId][f] = Cardinality({ o \in obtained : o.field = f })

\* two calls of append_delta in flight together, both past _next_seq
C6_Witness ==
    /\ writers = Procs
    /\ \A p \in Procs : proc[p].op = "append_delta" /\ proc[p].pc = "create"

\* C7: durable backend: append_delta and commit_knot are atomic: in every
\* reachable state, also after a failed call and between the steps of a call, a
\* counter has been incremented for a call exactly when the call's node is
\* stored: each counter equals the number of nodes stored through it.
C7_AtomicAppend ==
    /\ dbBraids[BraidId].next_delta_seq = Len(dbDeltas)
    /\ dbBraids[BraidId].next_knot_seq = Len(dbKnots)

\* ---- C8

\* the episode get_episode returns when upsert_episode(ep) has run alone
View(ep) ==
    LET r == MergeEdgesFrom(MergeEpisodeStmt(<<>>, ep), {}, ep.id, ep.edges, 1)
    IN  EpisodeOfNode(ep.id, r.eps[ep.id], EdgeRowsStmt(r.edges, ep.id), BraidId)

\* the episodes upsert_episode was called with for the id
Upserted(id) ==
    { View(c.arg[1]) : c \in { x \in calls : x.op = "upsert_episode" /\ x.arg[1].id = id } }

\* C8: durable backend: upsert_episode is atomic: a get_episode running beside
\* it returns a complete episode as some call of upsert_episode wrote it, never
\* a mixture of two; and when no call is in progress, after failed calls too,
\* the stored episode is a complete one.
C8_AtomicUpsert ==
    /\ \A s \in snap : s.result # <<>> => s.result[1] \in Upserted(s.id)
    /\ (\A p \in Procs : proc[p].op = "idle") =>
          \A id \in {"e1"} \cap DOMAIN dbEpisodes :
             EpisodeOfNode(id, dbEpisodes[id], EdgeRowsStmt(dbEdges, id), BraidId)
                \in Upserted(id)


\* ---- C9, C10

BeadIds == {"reasoning-summary", "bx"}

\* the calls of upsert_bead_version with the bead id, oldest first
BeadCalls(bead_id) == SelectSeq(hist.beads, LAMBDA c : c.bead_id = bead_id)

\* the versions the durable store holds for the bead: the BeadVersion nodes its
\* HAS_VERSION relationships lead to
NeoVersionsOf(bead_id) ==
    { i \in 1..Len(dbVersions) : <<bead_id, dbVersions[i].id>> \in dbHasVersion }

\* C9: either backend: after k >= 1 calls of upsert_bead_version with a bead
\* id, other operations between them or not, the bead has exactly k versions
\* and its active_version_id is the version id the latest of the k calls
\* returned; every call returns a reference with role "created" and a version
\* id no earlier call returned.
C9_BeadVersioning ==
    /\ \A b \in BeadIds :
        LET cs == BeadCalls(b)
            k == Len(cs)
        IN  k >= 1 =>
              /\ MemBeadIndex(b) # 0
              /\ Len(memBeads[MemBeadIndex(b)].versions) = k
              /\ memBeads[MemBeadIndex(b)].active_version_id = cs[k].mem.bead_version_id
              /\ b \in DOMAIN dbBeads
              /\ Cardinality(NeoVersionsOf(b)) = k
              /\ dbBeads[b].active_version_id = cs[k].neo.bead_version_id
    /\ \A i \in 1..Len(hist.beads) :
          /\ hist.beads[i].mem.role = "created" /\ hist.beads[i].neo.role = "created"
          /\ hist.beads[i].mem.bead_id = hist.beads[i].bead_id
          /\ hist.beads[i].neo.bead_id = hist.beads[i].bead_id
          /\ \A j \in 1..(i - 1) :
                /\ hist.beads[j].mem.bead_version_id # hist.beads[i].mem.bead_version_id
                /\ hist.beads[j].neo.bead_version_id # hist.beads[i].neo.bead_version_id

\* two calls for one bead with a call for another bead between them
C9_Witness ==
    /\ Len(hist.beads) = 3
    /\ hist.beads[1].bead_id = "bx" /\ hist.beads[2].bead_id = "reasoning-summary"
    /\ hist.beads[3].bead_id = "bx"
    /\ Len(memBeads[MemBeadIndex("bx")].versions) = 2
    /\ Cardinality(NeoVersionsOf("bx")) = 2

IsPrefix(s, t) == Len(s) <= Len(t) /\ \A i \in 1..Len(s) : s[i] = t[i]

\* active_version_id is unset or names a version of the bead itself
ActiveIsOwnVersion ==
    /\ \A i \in 1..Len(memBeads) :
          \/ memBeads[i].active_version_id = None
          \/ \E j \in 1..Len(memBeads[i].versions) :
                /\ memBeads[i].versions[j].id = memBeads[i].active_version_id
                /\ memBeads[i].versions[j].bead_id = memBeads[i].id
    /\ \A b \in DOMAIN dbBeads :
          \/ dbBeads[b].active_version_id = None
          \/ \E i \in NeoVersionsOf(b) :
                /\ dbVersions[i].id = dbBeads[b].active_version_id
                /\ dbVersions[i].bead_id = b

\* C10: either backend, every reachable state: a bead's active_version_id is
\* unset or the id of a version in that bead's own version set; and in every
\* step the version sets only grow: no version is removed and none has its id,
\* creation timestamp, type or data changed.
C10_HistoryAppendOnly ==
    [][ /\ ActiveIsOwnVersion /\ ActiveIsOwnVersion'
        /\ Len(memBeads) <= Len(memBeads')
        /\ \A i \in 1..Len(memBeads) :
              /\ memBeads'[i].id = memBeads[i].id
              /\ IsPrefix(memBeads[i].versions, memBeads'[i].versions)
        /\ IsPrefix(dbVersions, dbVersions')
        /\ dbHasVersion \subseteq dbHasVersion'
        /\ DOMAIN dbBeads \subseteq DOMAIN dbBeads' ]_vars

\* a bead written a second time: its pointer has moved to the second version
\* and the first version is still there
C10_Witness ==
    /\ lastOp.op = "upsert_bead_version"
    /\ \E i \in 1..Len(memBeads) :
          /\ Len(memBeads[i].versions) = 2
          /\ memBeads[i].active_version_id = memBeads[i].versions[2].id
          /\ Cardinality(NeoVersionsOf(memBeads[i].id)) = 2
          /\ dbBeads[memBeads[i].id].active_version_id = memBeads[i].versions[2].id

\* ---- C11

\* the step is a call of upsert_episode for an id upserted before
IsReUpsertEpisode ==
    /\ ops' = ops + 1 /\ lastOp'.op = "upsert_episode"
    /\ MemEpisodeIndex(lastOp'.arg[1].id) # 0

\* the edges of a list, as a set
EdgeSet(list) == { list[i] : i \in 1..Len(list) }

\* C11: either backend, edge replacement: upsert_episode with edges E1 and
\* then upsert_episode of the same id with edges E2 leaves the edges of
\* get_episode(id) equal to exactly E2: the edges of E1 not in E2 are gone and
\* no edge of E2 is missing, E2 empty or a strict subset of E1 included.
C11_EdgeReplacement ==
    [][ IsReUpsertEpisode =>
          \A id \in EpisodeIds :
             id = lastOp'.arg[1].id =>
                /\ Mem_get_episode(id)' # <<>>
                /\ EdgeSet(Mem_get_episode(id)'[1].edges) = EdgeSet(lastOp'.arg[1].edges)
                /\ Neo_get_episode(id)' # <<>>
                /\ Neo_get_episode(id)'[1].edges = EdgeSet(lastOp'.arg[1].edges) ]_vars

\* ---- C12

\* the deltas append_delta and the appenders stored for the braid of the
\* durable store, as the caller passed them, oldest first
NeoAppended == SelectSeq(hist.neo, LAMBDA d : d.braid_id = BraidId)

\* C12: durable backend, round trip of deltas: the delta get_recent_deltas
\* returns for a delta d that was appended equals d in every field (id,
\* braid_id, kind, ts, provenance, confidence, payload, refs, tags): no field
\* is dropped or replaced by a default.
C12_DeltaRoundTrip ==
    \A r \in Neo_get_recent_deltas(Big) :
        /\ Len(r) = Len(NeoAppended)
        /\ \A i \in 1..Len(r) : r[i] = NeoAppended[i]

\* ---- C13

\* C13: durable backend: a failure or rejection of the write by the engine is
\* raised to the caller, and the store does not retry: no call of append_delta
\* returns normally while its delta is absent from what get_recent_deltas
\* returns afterwards, and no call runs _next_seq twice.
C13_NoSilentLoss ==
    /\ \A o \in outs :
          (o.op = "append_delta" /\ o.out = "ok") =>
             \A r \in Neo_get_recent_deltas(MaxCalls) :
                \E i \in 1..Len(r) : /\ r[i].id = o.arg[1].id
                                     /\ r[i].braid_id = o.arg[1].braid_id
    /\ \A o1, o2 \in obtained : (o1.p = o2.p /\ o1.n = o2.n) => o1 = o2

\* ---- C14

\* the step is a call of commit_knot with arguments a Knot can be built of
IsCommitKnot ==
    /\ ops' = ops + 1 /\ lastOp'.op = "commit_knot"
    /\ KnotValidates(lastOp'.arg[1], lastOp'.arg[2], lastOp'.arg[3])

\* the reference store: the call returns the knot with the supplied ids and the
\* store's braid, and the knot is the new last element of get_recent_knots
MemKnotCommitted ==
    /\ memRet'.status = "ok"
    /\ memRet'.val[1].delta_range =
          [start_delta_id |-> lastOp'.arg[2], end_delta_id |-> lastOp'.arg[3]]
    /\ memRet'.val[1].braid_id = BraidId
    /\ Len(Mem_get_recent_knots(Big)') = Len(Mem_get_recent_knots(Big)) + 1
    /\ Mem_get_recent_knots(1)' = <<memRet'.val[1]>>

\* the same of the durable store
NeoKnotCommitted ==
    /\ neoRet'.status = "ok"
    /\ neoRet'.val[1].delta_range =
          [start_delta_id |-> lastOp'.arg[2], end_delta_id |-> lastOp'.arg[3]]
    /\ neoRet'.val[1].braid_id = BraidId
    /\ \A r \in Neo_get_recent_knots(Big), r2 \in Neo_get_recent_knots(Big)' :
          Len(r2) = Len(r) + 1
    /\ Neo_get_recent_knots(1)' = {<<neoRet'.val[1]>>}

KnotIdTaken ==
    uniqueIds /\ \E i \in 1..Len(dbKnots) : dbKnots[i].id = lastOp'.arg[5]

AppenderKind ==
    [append_message_delta |-> "message", append_tool_call_delta |-> "tool_call",
     append_tool_result_delta |-> "tool_result"]

ExpectedConfidence(op, arg) ==
    IF op = "append_message_delta" THEN (IF arg[3] \in {"user", "tool"} THEN 7 ELSE 6)
    ELSE IF op = "append_tool_call_delta" THEN 6
    ELSE (IF arg[1] = "true" THEN 7 ELSE 4)

\* the delta a store returned is what the spec says the appender builds
AsSpecified(ret, op, arg) ==
    /\ ret.status = "ok"
    /\ ret.val[1].kind = AppenderKind[op]
    /\ ret.val[1].braid_id = BraidId
    /\ ret.val[1].confidence = ExpectedConfidence(op, arg)

\* C15: the convenience appenders, either backend: each builds a delta of its
\* kind with the store's braid_id, appends it and returns it; the confidence
\* is 0.7 for a message of provenance user or tool and 0.6 for any other
\* provenance, 0.6 for a tool call, 0.7 for a tool result with ok and 0.4
\* without; get_recent_deltas(1) right afterwards returns the returned delta.
C15_Appenders ==
    [][ (/\ ops' = ops + 1 /\ lastOp'.op \in DOMAIN AppenderKind
         /\ lastOp'.op = "append_message_delta" => lastOp'.arg[3] \in ProvenanceKind) =>
          /\ AsSpecified(memRet', lastOp'.op, lastOp'.arg)
          /\ AsSpecified(neoRet', lastOp'.op, lastOp'.arg)
          /\ Mem_get_recent_deltas(1)' = <<memRet'.val[1]>>
          /\ Neo_get_recent_deltas(1)' = {<<neoRet'.val[1]>>} ]_vars

\* an assistant message (0.6), then a failed tool result (0.4), read back last
C15_Witness ==
    /\ lastOp.op = "append_tool_result_delta" /\ lastOp.arg[1] = "false"
    /\ Len(dbDeltas) = 2 /\ Len(memDeltas) = 2
    /\ dbDeltas[1].kind = "message" /\ dbDeltas[1].confidence = 6
    /\ neoRet.val[1].confidence = 4 /\ memRet.val[1].confidence = 4
    /\ Neo_get_recent_deltas(1) = {<<neoRet.val[1]>>}

\* ---- C16

Min(a, b) == IF a < b THEN a ELSE b

\* the (version id, creation timestamp) pairs of the versions of a type that
\* the reference store and the durable store hold
MemVersionsOfType(t) ==
    { <<memBeads[i].versions[j].id, memBeads[i].versions[j].created_ts>> :
        <<i, j>> \in { x \in (1..Len(memBeads)) \X (1..MaxOps) :
                          /\ x[2] <= Len(memBeads[x[1]].versions)
                          /\ memBeads[x[1]].versions[x[2]].type = t } }

NeoVersionsOfType(t) ==
    { <<dbVersions[i].id, dbVersions[i].created_ts>> :
        i \in { x \in 1..Len(dbVersions) :
                   dbVersions[x].braid_id = BraidId /\ dbVersions[x].type = t } }

\* rows is a window of the limit most recent versions of type t among all,
\* oldest first
RecentOfType(rows, all, t, limit) ==
    /\ Len(rows) = Min(limit, Cardinality(all))
    /\ \A i \in 1..Len(rows) :
          /\ rows[i].type = t
          /\ <<rows[i].bead_version_id, rows[i].created_ts>> \in all
    /\ \A i, j \in 1..Len(rows) :
          i < j => /\ rows[i].created_ts <= rows[j].created_ts
                   /\ rows[i].bead_version_id # rows[j].bead_version_id
    /\ \A v \in all :
          (\A i \in 1..Len(rows) : rows[i].bead_version_id # v[1]) =>
             \A i \in 1..Len(rows) : v[2] <= rows[i].created_ts

\* C16: get_recent_bead_versions(bead_type = t, limit) on either backend, for
\* limit > 0 and a type t: at most limit rows, every row of type t, the rows
\* being the most recent versions of that type by creation timestamp, oldest
\* first; also when a bead was written with different bead_type values.
C16_TypeFilter ==
    \A t \in BeadTypes, limit \in 1..Big :
        /\ RecentOfType(Mem_get_recent_bead_versions(t, limit),
                        MemVersionsOfType(t), t, limit)
        /\ \A rows \in Neo_get_recent_bead_versions(t, limit) :
              RecentOfType(rows, NeoVersionsOfType(t), t, limit)


\* ------------------------------- two durable stores sharing one database
\* SpecIso: a store for each braid of Braids is constructed over the one
\* database, and one caller at a time runs an operation on one of the stores;
\* no query fails.  Each store is handed entities of its own braid.

\* the arguments the caller of the store of braid b passes
IsoDeltaInputs(b) ==
    { GenericDelta(id, b, "observation", 0, Provenance("system", None),
                   ConfDefault, <<"p">>, None, <<>>) : id \in {"d1", "d2"} }

IsoEpisodeInputs(b) ==
    { Episode("e1", b, "active", "s1", <<>>), Episode("e1", b, "closed", "s2", <<EdgeA>>) }

\* what an operation on the store of braid b does besides its effect on the
\* database
IsoStep(op, b, arg) ==
    /\ ops < MaxOps
    /\ ops' = ops + 1
    /\ lastOp' = [op |-> op, arg |-> <<b>> \o arg]
    /\ UNCHANGED <<memVars, memRet, hist, durVars, uniqueIds, epEdgeTypeSeen>>

\* Neo4jEpisodicStore(braid_id = b, ...): _ensure_schema, whose constraints
\* are best effort, and _ensure_braid
OpenStore(b) ==
    /\ ops < MaxOps
    /\ ops' = ops + 1
    /\ lastOp' = [op |-> "__init__", arg |-> <<b>>]
    /\ dbBraids' = EnsureBraidStmt(dbBraids, b)
    /\ neoRet' = OkNone
    /\ hist' = [hist EXCEPT !.reopened =
                    IF b \in DOMAIN dbBraids
                    THEN @ \cup {[braid_id |-> b, deltas |-> Len(dbDeltas)]} ELSE @]
    /\ UNCHANGED <<memVars, memRet, durVars, uniqueIds, epEdgeTypeSeen>>
    /\ UNCHANGED <<dbDeltas, dbKnots, dbBeads, dbVersions, dbHasVersion, dbEpisodes,
                   dbEdges, dbRelTypes, uuid, clock>>

\* the store of braid b has been constructed
Opened(b) == b \in DOMAIN dbBraids

IsoAppendDelta(b) ==
    \E d \in IsoDeltaInputs(b) :
        /\ Opened(b)
        /\ IsoStep("append_delta", b, <<d>>)
        /\ Store_append_delta(b, d)
        /\ neoRet' = IF Neo_append_delta_raises(d) THEN Raised ELSE OkNone
        /\ UNCHANGED <<dbKnots, dbBeads, dbVersions, dbHasVersion, dbEpisodes,
                       dbEdges, dbRelTypes, uuid, clock>>

IsoCommitKnot(b) ==
    /\ Opened(b)
    /\ IsoStep("commit_knot", b, <<"e1", "d1", "d2", "sum", None>>)
    /\ Store_commit_knot(b, "e1", "d1", "d2", "sum", None)
    /\ uuid' = uuid + 1
    /\ UNCHANGED <<dbDeltas, dbBeads, dbVersions, dbHasVersion, dbEpisodes,
                   dbEdges, dbRelTypes, clock>>

\* upsert_reasoning_summary_bead
IsoUpsertBeadVersion(b) ==
    \E now \in {clock, clock + 1} :
        /\ Opened(b)
        /\ IsoStep("upsert_bead_version", b, <<"reasoning-summary", "reasoning_bead">>)
        /\ Store_upsert_bead_version(b, "reasoning-summary", "reasoning_bead", "data", now)
        /\ uuid' = uuid + 1
        /\ clock' = now
        /\ UNCHANGED <<dbBraids, dbDeltas, dbKnots, dbEpisodes, dbEdges>>

IsoUpsertEpisode(b) ==
    \E ep \in IsoEpisodeInputs(b) :
        /\ Opened(b)
        /\ IsoStep("upsert_episode", b, <<ep>>)
        /\ Neo_upsert_episode(ep) /\ neoRet' = OkNone
        /\ UNCHANGED <<dbBraids, dbDeltas, dbKnots, dbBeads, dbVersions, dbHasVersion,
                       uuid, clock>>

IsoSetActiveEpisodeId(b) ==
    /\ Opened(b)
    /\ IsoStep("set_active_episode_id", b, <<"e1">>)
    /\ dbBraids' = SetActiveStmt(dbBraids, b, "e1") /\ neoRet' = OkNone
    /\ UNCHANGED <<dbDeltas, dbKnots, dbBeads, dbVersions, dbHasVersion, dbEpisodes,
                   dbEdges, dbRelTypes, uuid, clock>>

NextIso ==
    \E b \in Braids :
        \/ OpenStore(b)
        \/ IsoAppendDelta(b)
        \/ IsoCommitKnot(b)
        \/ IsoUpsertBeadVersion(b)
        \/ IsoUpsertEpisode(b)
        \/ IsoSetActiveEpisodeId(b)

SpecIso == Init /\ [][NextIso]_vars

\* ---- C17

\* what every read operation of the store of braid b returns
Reads(b) ==
    [deltas |-> Store_get_recent_deltas(b, Big),
     knots |-> Store_get_recent_knots(b, Big),
     beads |-> [t \in BeadTypes \cup {None} |-> Store_get_recent_bead_versions(b, t, Big)],
     episode |-> [id \in EpisodeIds |-> Store_get_episode(b, id)],
     list |-> [st \in EpisodeStates \cup {None} |-> Store_list_episodes(b, st, Big)],
     active |-> Store_get_active_episode(b)]

\* C17: braid isolation: with two durable stores for different braids A and B
\* on one database, no operation on the A store changes what a read operation
\* on the B store returns, also when both braids use the same bead id or the
\* same episode id.  (Two reference stores share no state: each instance has
\* lists and dicts of its own.)
C17_BraidIsolation ==
    [][ \A a, b \in Braids :
          (a # b /\ Opened(b) /\ ops' = ops + 1 /\ lastOp'.arg[1] = a) =>
             Reads(b)' = Reads(b) ]_vars

\* ---- C18

\* what get_active_episode is to return: nothing when set_active_episode_id
\* was never called or no episode of the id it was last called with has been
\* upserted, and else the episode of that id
ActiveAsSet(got) ==
    IF hist.active = <<>> \/ hist.active[1] \notin hist.upserted
    THEN got = <<>>
    ELSE got # <<>> /\ got[1].id = hist.active[1]

\* C18: at most one episode is active: in every reachable state of either
\* backend get_active_episode returns nothing or one episode, the stored
\* episode whose id the most recent set_active_episode_id was called with; it
\* returns nothing when set_active_episode_id was never called or no episode
\* with that id has been upserted.
C18_ActiveEpisode ==
    /\ ActiveAsSet(Mem_get_active_episode)
    /\ hist.active # <<>> => Mem_get_active_episode = Mem_get_episode(hist.active[1])
    /\ ActiveAsSet(Neo_get_active_episode)
    /\ (hist.active # <<>> /\ hist.active[1] # "") =>
          Neo_get_active_episode = Neo_get_episode(hist.active[1])

\* ---- C19

\* the step is a call of an appender or of commit_knot that raised on both
\* stores because the entity it builds does not validate
IsValidationFailure ==
    /\ ops' = ops + 1
    /\ \/ lastOp'.op = "append_message_delta" /\ lastOp'.arg[3] \notin ProvenanceKind
       \/ /\ lastOp'.op = "commit_knot"
          /\ ~KnotValidates(lastOp'.arg[1], lastOp'.arg[2], lastOp'.arg[3])

\* C19: a validation failure at construction leaves no trace: when an
\* appender or commit_knot raises because the entity it builds is
\* schema-invalid, the delta log, the knot log and the durable store's
\* next_delta_seq and next_knot_seq are unchanged (and so is every read).
C19_NoTrace ==
    [][ IsValidationFailure =>
          /\ memRet'.status = "raised" /\ neoRet'.status = "raised"
          /\ memDeltas' = memDeltas /\ memKnots' = memKnots
          /\ dbDeltas' = dbDeltas /\ dbKnots' = dbKnots
          /\ dbBraids'[BraidId].next_delta_seq = dbBraids[BraidId].next_delta_seq
          /\ dbBraids'[BraidId].next_knot_seq = dbBraids[BraidId].next_knot_seq
          /\ Mem_get_recent_deltas(Big)' = Mem_get_recent_deltas(Big)
          /\ Neo_get_recent_deltas(Big)' = Neo_get_recent_deltas(Big)
          /\ Mem_get_recent_knots(Big)' = Mem_get_recent_knots(Big)
          /\ Neo_get_recent_knots(Big)' = Neo_get_recent_knots(Big) ]_vars

\* a message and a knot are stored, and commit_knot has just raised on a
\* primary_episode_id of None
C19_Witness ==
    /\ lastOp.op = "commit_knot" /\ lastOp.arg[1] = None
    /\ memRet.status = "raised" /\ neoRet.status = "raised"
    /\ Len(dbDeltas) = 1 /\ Len(dbKnots) = 1 /\ Len(memDeltas) = 1 /\ Len(memKnots) = 1
    /\ dbBraids[BraidId].next_delta_seq = 1 /\ dbBraids[BraidId].next_knot_seq = 1

\* ---- C20

\* the step is a call of upsert_bead_version
IsUpsertBeadVersion == ops' = ops + 1 /\ lastOp'.op = "upsert_bead_version"

\* the type of the bead in the reference store; None when the bead is absent
MemBeadType(bead_id) ==
    IF MemBeadIndex(bead_id) = 0 THEN None ELSE memBeads[MemBeadIndex(bead_id)].type

NeoBeadType(bead_id) ==
    IF bead_id \in DOMAIN dbBeads THEN dbBeads[bead_id].type ELSE None

\* C20: the type of a bead is fixed by the first upsert_bead_version for its
\* id: on either backend a later call for the id with another bead_type
\* creates a new version (of the call's type) and repoints active_version_id,
\* and leaves the bead's own type as it was.
C20_TypeFixedByFirstWrite ==
    [][ IsUpsertBeadVersion =>
          \A b \in BeadIds :
             b = lastOp'.arg[1] =>
                /\ MemBeadType(b)' = IF MemBeadType(b) = None THEN lastOp'.arg[2]
                                     ELSE MemBeadType(b)
                /\ NeoBeadType(b)' = IF NeoBeadType(b) = None THEN lastOp'.arg[2]
                                     ELSE NeoBeadType(b)
                /\ LET vs == memBeads'[MemBeadIndex(b)'].versions
                   IN  /\ Len(vs) = Len(BeadCalls(b)) + 1
                       /\ vs[Len(vs)].type = lastOp'.arg[2]
                       /\ memBeads'[MemBeadIndex(b)'].active_version_id = vs[Len(vs)].id
                /\ Cardinality(NeoVersionsOf(b)') = Cardinality(NeoVersionsOf(b)) + 1
                /\ dbVersions'[Len(dbVersions')].type = lastOp'.arg[2]
                /\ dbBeads'[b].active_version_id = dbVersions'[Len(dbVersions')].id ]_vars

\* bead bx written as a reasoning_bead and then as a memory_bead: two
\* versions, the active one a memory_bead, the bead still a reasoning_bead
C20_Witness ==
    /\ lastOp.op = "upsert_bead_version" /\ lastOp.arg = <<"bx", "memory_bead">>
    /\ MemBeadType("bx") = "reasoning_bead" /\ NeoBeadType("bx") = "reasoning_bead"
    /\ Len(memBeads[MemBeadIndex("bx")].versions) = 2
    /\ memBeads[MemBeadIndex("bx")].versions[2].type = "memory_bead"
    /\ Cardinality(NeoVersionsOf("bx")) = 2
    /\ dbBeads["bx"].active_version_id = dbVersions[Len(dbVersions)].id
    /\ dbVersions[Len(dbVersions)].type = "memory_bead"


\* ------------------------------------------------------------------- C21

\* every read of the reference store, as a function of its arguments
MemReads ==
    [deltas |-> [l \in Limits |-> Mem_get_recent_deltas(l)],
     knots |-> [l \in Limits |-> Mem_get_recent_knots(l)],
     beads |-> [t \in BeadTypes \cup {None}, l \in Limits |->
                   Mem_get_recent_bead_versions(t, l)],
     episode |-> [id \in EpisodeIds |-> Mem_get_episode(id)],
     episodes |-> [s \in EpisodeStateFilters, l \in Limits |-> Mem_list_episodes(s, l)],
     active |-> Mem_get_active_episode]

\* C21: close() is idempotent on both backends: however often it is called,
\* and whether or not the driver's own close fails, it returns normally; on the
\* reference backend it changes no delta, knot, bead, episode or active-episode
\* pointer, so every read returns after the close what it returned before.
C21_CloseIdempotent ==
    [][lastOp'.op = "close" =>
          /\ memRet'.status = "ok" /\ neoRet'.status = "ok"
          /\ memVars' = memVars
          /\ MemReads' = MemReads]_vars

\* close was called a second time, the driver's close failed, and a delta is
\* stored
C21_Witness ==
    /\ lastOp.op = "close" /\ lastOp.arg = <<"raised">>
    /\ hist.closes = 2
    /\ memDeltas # <<>>

\* ------------------------------------------------------------------- C22

\* the step is a call of upsert_episode
IsUpsertEpisode == ops' = ops + 1 /\ lastOp'.op = "upsert_episode"

\* how often an edge occurs in a list of edges
Multiplicity(list, e) == Cardinality({ i \in 1..Len(list) : list[i] = e })

\* C22: durable backend, episode round trip: after upsert_episode(ep),
\* get_episode(ep.id) returns an episode whose scalar fields are those of ep and
\* whose edges are the (type, to_episode_id, confidence) triples of ep.edges,
\* each as often as ep.edges holds it and with the confidence it was given,
\* 0.0 and 1.0 included.
C22_EpisodeRoundTrip ==
    [][ IsUpsertEpisode =>
          \A id \in EpisodeIds :
             id = lastOp'.arg[1].id =>
                /\ Neo_get_episode(id)' # <<>>
                /\ Neo_get_episode(id)'[1].id = lastOp'.arg[1].id
                /\ Neo_get_episode(id)'[1].braid_id = lastOp'.arg[1].braid_id
                /\ Neo_get_episode(id)'[1].state = lastOp'.arg[1].state
                /\ Neo_get_episode(id)'[1].scal = lastOp'.arg[1].scal
                /\ \A e \in Neo_get_episode(id)'[1].edges \cup EdgeSet(lastOp'.arg[1].edges) :
                      Multiplicity(lastOp'.arg[1].edges, e)
                         = IF e \in Neo_get_episode(id)'[1].edges THEN 1 ELSE 0 ]_vars

\* ------------------------------------------------------------------- C23

\* the edges stored for an episode, as get_episode reads them
StoredEdges(id) ==
    EpisodeOfNode(id, StubEpisode, EdgeRowsStmt(dbEdges, id), BraidId).edges

\* C23: durable backend: read errors are not masked: a call of get_episode in
\* which a query fails, the relationship-type check included, raises; a call
\* that returns an episode returns it with the edges that are stored for it
\* when it returns, never with an empty or incomplete edge list.
C23_ReadErrorsRaised ==
    [][ \A s \in snap' \ snap :
           s.result # <<>> => s.result[1].edges = StoredEdges(s.id) ]_vars

\* ------------------------------------------------------------------- C24

\* the ids of the episodes of a list
IdsOf(list) == { list[i].id : i \in 1..Len(list) }

\* C24: either backend: get_episode(id) returns an episode only if
\* upsert_episode was called with an episode of that id; the target of an edge
\* that was never upserted itself is returned neither by get_episode nor by
\* list_episodes.
C24_OnlyUpserted ==
    /\ \A id \in EpisodeIds :
          /\ Mem_get_episode(id) # <<>> => id \in hist.upserted
          /\ Neo_get_episode(id) # <<>> => id \in hist.upserted
    /\ \A s \in EpisodeStateFilters, l \in Limits :
          /\ IdsOf(Mem_list_episodes(s, l)) \subseteq hist.upserted
          /\ Neo_list_episodes(s, l).status = "ok" =>
                IdsOf(Neo_list_episodes(s, l).val[1]) \subseteq hist.upserted

\* ------------------------------------------------------------------- C25

\* the episodes of the reference store that a state filter lets through, in
\* insertion order
MemQualifying(state) ==
    IF state = None THEN memEpisodes
    ELSE SelectSeq(memEpisodes, LAMBDA e : e.state = state)

\* every episode of the list was upserted and is of the store's braid
UpsertedOfBraid(list) ==
    \A i \in 1..Len(list) : list[i].id \in hist.upserted /\ list[i].braid_id = BraidId

\* C25: either backend: list_episodes(state, limit) returns at most limit
\* episodes for every limit >= 0, none for limit 0, all of them upserted
\* episodes of the store's braid; the reference backend returns the last limit
\* qualifying episodes in insertion order.
C25_ListEpisodesBounded ==
    \A s \in EpisodeStateFilters, l \in Limits :
       l >= 0 =>
          /\ Len(Mem_list_episodes(s, l)) <= l
          /\ UpsertedOfBraid(Mem_list_episodes(s, l))
          /\ Mem_list_episodes(s, l) = Window(MemQualifying(s), l)
          /\ Neo_list_episodes(s, l).status = "ok"
          /\ Len(Neo_list_episodes(s, l).val[1]) <= l
          /\ UpsertedOfBraid(Neo_list_episodes(s, l).val[1])

\* ------------------------------------------------------------------- C26

\* C26: durable backend, concurrent writers: the log seen through reads grows
\* at its end only: of two reads get_recent_deltas(N), N at least the number
\* of deltas, taken one after the other while writers append to the braid, the
\* earlier result is a prefix of the later one.
C26_GrowsAtEnd ==
    [][ \A r1 \in Neo_get_recent_deltas(MaxCalls) :
           \A r2 \in Neo_get_recent_deltas(MaxCalls)' : IsPrefix(r1, r2) ]_vars

\* ------------------------------------------------------------------- C27

\* the step constructs a store for a braid whose root node exists
IsReopen == ops' = ops + 1 /\ lastOp'.op = "__init__" /\ lastOp'.arg[1] \in DOMAIN dbBraids

\* the step is an append_delta that returned, through a store constructed for
\* an existing braid b
IsAppendAfterReopen(b) ==
    /\ ops' = ops + 1 /\ lastOp'.op = "append_delta" /\ lastOp'.arg[1] = b
    /\ \E r \in hist.reopened : r.braid_id = b
    /\ neoRet'.status = "ok"

\* C27: durable backend, re-open: constructing a store for a braid that exists
\* leaves next_delta_seq, next_knot_seq, the active-episode pointer and every
\* stored node as they are, so a delta appended through the new instance gets
\* a seq greater than that of every stored delta of the braid and is returned
\* after all earlier deltas.
C27_Reopen ==
    [][ /\ IsReopen => dbVars' = dbVars
        /\ \A b \in Braids :
              IsAppendAfterReopen(b) =>
                 /\ Len(dbDeltas') = Len(dbDeltas) + 1
                 /\ dbDeltas'[Len(dbDeltas')].id = lastOp'.arg[2].id
                 /\ \A i \in 1..Len(dbDeltas) :
                       dbDeltas[i].braid_id = b => dbDeltas[i].seq < dbDeltas'[Len(dbDeltas')].seq
                 /\ \A r1 \in Store_get_recent_deltas(b, Big) :
                       \A r2 \in Store_get_recent_deltas(b, Big)' :
                          /\ IsPrefix(r1, r2)
                          /\ Len(r2) = Len(r1) + 1
                          /\ r2[Len(r2)].id = lastOp'.arg[2].id ]_vars

\* a delta was appended to a braid that holds a delta, through a store
\* constructed after that delta was written
C27_Witness ==
    /\ lastOp.op = "append_delta" /\ lastOp.arg[1] = "b1" /\ neoRet.status = "ok"
    /\ \E r \in hist.reopened : r.braid_id = "b1" /\ r.deltas = 1
    /\ Len(dbDeltas) = 2 /\ \A i \in 1..2 : dbDeltas[i].braid_id = "b1"

\* ------------------------------------------------------------------- C28

ReadOps ==
    {"get_recent_deltas", "get_recent_knots", "get_recent_bead_versions",
     "get_episode", "list_episodes", "get_active_episode"}

AppendOps ==
    {"append_delta", "append_message_delta", "append_tool_call_delta",
     "append_tool_result_delta"}

\* the root nodes are the same but for the fields named
SameBraidsBut(fields) ==
    /\ DOMAIN dbBraids' = DOMAIN dbBraids
    /\ \A b \in DOMAIN dbBraids :
          \A f \in {"next_delta_seq", "next_knot_seq", "active_episode_id"} \ fields :
             dbBraids'[b][f] = dbBraids[b][f]

DeltasUnchanged ==
    /\ memDeltas' = memDeltas /\ dbDeltas' = dbDeltas
    /\ \A b \in DOMAIN dbBraids : dbBraids'[b].next_delta_seq = dbBraids[b].next_delta_seq

KnotsUnchanged ==
    /\ memKnots' = memKnots /\ dbKnots' = dbKnots
    /\ \A b \in DOMAIN dbBraids : dbBraids'[b].next_knot_seq = dbBraids[b].next_knot_seq

BeadsUnchanged ==
    /\ memBeads' = memBeads
    /\ dbBeads' = dbBeads /\ dbVersions' = dbVersions /\ dbHasVersion' = dbHasVersion

EpisodesUnchanged ==
    /\ memEpisodes' = memEpisodes /\ memActive' = memActive
    /\ dbEpisodes' = dbEpisodes /\ dbEdges' = dbEdges
    /\ \A b \in DOMAIN dbBraids :
          dbBraids'[b].active_episode_id = dbBraids[b].active_episode_id

\* the beads other than bead_id and their versions are as they were, and what
\* is new belongs to bead_id
OnlyBeadChanged(bead_id) ==
    /\ Len(memBeads') >= Len(memBeads)
    /\ \A i \in 1..Len(memBeads') :
          memBeads'[i].id # bead_id => i <= Len(memBeads) /\ memBeads'[i] = memBeads[i]
    /\ DOMAIN dbBeads' \ {bead_id} = DOMAIN dbBeads \ {bead_id}
    /\ \A id \in DOMAIN dbBeads \ {bead_id} : dbBeads'[id] = dbBeads[id]
    /\ IsPrefix(dbVersions, dbVersions')
    /\ \A i \in (Len(dbVersions) + 1)..Len(dbVersions') : dbVersions'[i].bead_id = bead_id
    /\ dbHasVersion \subseteq dbHasVersion'
    /\ \A r \in dbHasVersion' \ dbHasVersion : r[1] = bead_id

\* C28: frame conditions, either backend: a read changes no stored data;
\* append_delta and the appenders change only the delta log and
\* next_delta_seq; commit_knot changes only the knot log and next_knot_seq,
\* never the delta log; upsert_bead_version changes only that bead and its
\* versions (and the database learns the HAS_VERSION relationship type);
\* upsert_episode and set_active_episode_id change neither deltas, knots nor
\* beads.
C28_Frame ==
    [][ ops' = ops + 1 =>
          /\ lastOp'.op \in ReadOps => memVars' = memVars /\ dbVars' = dbVars
          /\ lastOp'.op \in AppendOps =>
                /\ KnotsUnchanged /\ BeadsUnchanged /\ EpisodesUnchanged
                /\ dbRelTypes' = dbRelTypes
                /\ SameBraidsBut({"next_delta_seq"})
          /\ lastOp'.op = "commit_knot" =>
                /\ DeltasUnchanged /\ BeadsUnchanged /\ EpisodesUnchanged
                /\ dbRelTypes' = dbRelTypes
                /\ SameBraidsBut({"next_knot_seq"})
          /\ lastOp'.op = "upsert_bead_version" =>
                /\ DeltasUnchanged /\ KnotsUnchanged /\ EpisodesUnchanged
                /\ dbBraids' = dbBraids
                /\ \A id \in BeadIds : id = lastOp'.arg[1] => OnlyBeadChanged(id)
          /\ lastOp'.op \in {"upsert_episode", "set_active_episode_id"} =>
                DeltasUnchanged /\ KnotsUnchanged /\ BeadsUnchanged ]_vars

\* list_episodes returned an episode on both stores, a delta being stored too
C28_Witness ==
    /\ lastOp.op = "list_episodes"
    /\ memRet.val[1] # <<>> /\ neoRet.val[1] # <<>>
    /\ memDeltas # <<>> /\ dbDeltas # <<>>

====
